---- MODULE Spec2Model ----
(***************************************************************************)
(* FileAgent (src/file_agent/agent.py): the rule-based command classifier   *)
(* _parse_command and the coordinator execute, with the filesystem          *)
(* primitives and the AI provider as collaborators; and FileManager         *)
(* (src/file_agent/file_manager.py): the filesystem primitives themselves   *)
(* on a small workspace with a backup directory; two invocations of         *)
(* execute on one asyncio event loop, with the providers of                 *)
(* src/file_agent/ai_providers.py; and Config.get and Config.set            *)
(* (src/file_agent/config.py) over the environment, the loaded              *)
(* configuration and the built-in defaults.                                 *)
(*                                                                         *)
(* Text (an utterance, an AI response, a message) is a sequence of tokens.  *)
(* A token is one character ("(", ".", " ", a quote, a newline) or an       *)
(* atomic group of word characters (\w+ in the code's regular expressions): *)
(* "a", "txt", "create_file", or a Chinese keyword, written in pinyin       *)
(* because string literals are ASCII:                                       *)
(*   zh_chuangjian 创建   zh_wenjian 文件   zh_jia 夹   zh_mulu 目录         *)
(*   zh_duqu 读取   zh_chakan 查看   zh_liechu 列出   zh_xianshi 显示        *)
(*   zh_digui 递归   zh_shanchu 删除   zh_fuzhi 复制   zh_kaobei 拷贝        *)
(*   zh_neirong 内容   zh_shi 是   zh_wei 为                                 *)
(* The keyword 文件夹 is the two tokens zh_wenjian, zh_jia, so that 文件 is  *)
(* a substring of it, as in the source.                                     *)
(***************************************************************************)
EXTENDS Integers, Sequences, FiniteSets, TLC

VARIABLES
    pc,                  \* position of the execute coroutine
    ai_provider,         \* self.ai_provider is set (TRUE) or None (FALSE)
    user_input,          \* the utterance given to execute / _parse_command
    command,             \* the dict _parse_command returned
    result,              \* the dict execute returned, or the exception it let through
    trace,               \* collaborator calls of this invocation, in order
    directives,          \* what the AI meant: the segments its response was built from
    response_text,       \* ai_response["response"]
    executed_operations, \* the list execute builds on the ai_process path
    fs,                  \* the workspace directory tree of a FileManager
    backups,             \* the backup directory: backup name -> content
    backup_mode,         \* backup_enabled, and the condition of the backup directory
    clock,               \* datetime.now(), in seconds
    fm_call,             \* the last call of a FileManager primitive
    fm_result,           \* the dict that call returned
    prev,                \* fs and backups as they were before that call, and the call before it
    nops,                \* the number of primitive calls made so far
    tasks,               \* the execute invocations scheduled on one event loop
    running,             \* the invocation that holds the loop's thread, 0 if none does
    config_data,         \* Config.config_data: the loaded and set configuration
    environ,             \* os.environ: the environment variables that are set
    cfg_call,            \* the last call of Config.get or Config.set, or change of environ
    cfg_result,          \* what that call returned, or that it raised
    cfg_ops              \* the number of changes made to config_data and environ so far

\* the state of the FileManager and of its calls
fm_vars == <<fs, backups, backup_mode, clock, fm_call, fm_result, prev, nops>>

\* the state of the event loop and of the invocations on it
loop_vars == <<tasks, running>>

\* the state of a Config and of its environment
cfg_vars == <<config_data, environ, cfg_call, cfg_result, cfg_ops>>

vars == <<pc, ai_provider, user_input, command, result, trace, directives,
          response_text, executed_operations, fm_vars, loop_vars, cfg_vars>>

\* ------------------------------------------------------------------ bounds
\* An utterance is at most MaxUttSegs segments of UttSegs.
MaxUttSegs == 3
\* An AI response is at most MaxDirectives segments of RespSegs.
MaxDirectives == 2
\* A run of the FileManager is at most MaxOps primitive calls.
MaxOps == 2
\* The clock of a run goes from 0 to MaxClock seconds.
MaxClock == 1
\* An event loop runs NumTasks invocations of execute.
NumTasks == 2
\* A run of a Config makes at most MaxCfgOps changes (set, environment variables).
MaxCfgOps == 2

\* ------------------------------------------------------------ text helpers
SetMin(S) ==
    CHOOSE x \in S : \A y \in S : x <= y

SetMax(S) ==
    CHOOSE x \in S : \A y \in S : x >= y

\* s[i..] (Python s[i-1:])
From(s, i) ==
    SubSeq(s, i, Len(s))

\* Python: k in s, for a keyword k that is a sequence of tokens
Contains(s, k) ==
    \E i \in 1..(Len(s) - Len(k) + 1) : SubSeq(s, i, i + Len(k) - 1) = k

\* Python: s.startswith(k)
StartsWith(s, k) ==
    Len(s) >= Len(k) /\ SubSeq(s, 1, Len(k)) = k

\* Python: s.endswith(k)
EndsWith(s, k) ==
    Len(s) >= Len(k) /\ SubSeq(s, Len(s) - Len(k) + 1, Len(s)) = k

\* \s of the regular expressions, and the characters str.strip() removes
IsSpace(c) ==
    c \in {" ", "\n"}

IsQuote(c) ==
    c \in {"\"", "'"}

\* the tokens that are not word characters (\w); every other token is a group of them
NonWord ==
    {" ", "\n", "\"", "'", ".", ",", "(", ")", "*", "EXECUTE:", ":", "OK_MARK", "FAIL_MARK"}

IsWord(c) ==
    c \notin NonWord

\* first position >= i of s whose character is not in chars, Len(s) + 1 if none
RECURSIVE FirstNotIn(_, _, _)
FirstNotIn(s, i, chars) ==
    IF i > Len(s) \/ s[i] \notin chars THEN i ELSE FirstNotIn(s, i + 1, chars)

\* first position >= i of s whose character is in chars, Len(s) + 1 if none
RECURSIVE FirstIn(_, _, _)
FirstIn(s, i, chars) ==
    IF i > Len(s) \/ s[i] \in chars THEN i ELSE FirstIn(s, i + 1, chars)

\* last position <= i of s whose character is not in chars, 0 if none
RECURSIVE LastNotIn(_, _, _)
LastNotIn(s, i, chars) ==
    IF i < 1 \/ s[i] \notin chars THEN i ELSE LastNotIn(s, i - 1, chars)

\* Python: s.strip(chars), chars a set of characters
StripChars(s, chars) ==
    SubSeq(s, FirstNotIn(s, 1, chars), LastNotIn(s, Len(s), chars))

\* Python: s.strip()
Strip(s) ==
    StripChars(s, {" ", "\n"})

\* Python: c.lower() on one token; the tokens with upper-case letters are A and Hi
LowerTok(c) ==
    CASE c = "A" -> "a"
      [] c = "Hi" -> "hi"
      [] OTHER -> c

\* Python: s.lower()
Lower(s) ==
    [i \in 1..Len(s) |-> LowerTok(s[i])]

\* no match of a regular expression
NoMatch ==
    [found |-> FALSE, group |-> <<>>, end |-> 0]

\* position of the first quote after position i, 0 if none
RECURSIVE NextQuote(_, _)
NextQuote(s, i) ==
    IF i + 1 > Len(s) THEN 0
    ELSE IF IsQuote(s[i + 1]) THEN i + 1
    ELSE NextQuote(s, i + 1)

\* [^"']+\.[\w]+ matches the whole of t
IsFileName(t) ==
    \E p \in 2..(Len(t) - 1) :
        /\ t[p] = "."
        /\ \A q \in (p + 1)..Len(t) : IsWord(t[q])

\* ["']([^"']+\.[\w]+)["'] matched at position i of s
FileTokenAt(s, i) ==
    LET j == NextQuote(s, i)
    IN  IF i <= Len(s) /\ IsQuote(s[i]) /\ j > i + 1 /\ IsFileName(SubSeq(s, i + 1, j - 1))
        THEN [found |-> TRUE, group |-> SubSeq(s, i + 1, j - 1), end |-> j]
        ELSE NoMatch

\* ["']([^"']+)["'] matched at position i of s
QuotedTokenAt(s, i) ==
    LET j == NextQuote(s, i)
    IN  IF i <= Len(s) /\ IsQuote(s[i]) /\ j > i + 1
        THEN [found |-> TRUE, group |-> SubSeq(s, i + 1, j - 1), end |-> j]
        ELSE NoMatch

\* the leftmost match of the file-name pattern at a position >= i of s
RECURSIVE SearchFileFrom(_, _)
SearchFileFrom(s, i) ==
    IF i > Len(s) THEN NoMatch
    ELSE IF IsQuote(s[i]) /\ FileTokenAt(s, i).found THEN FileTokenAt(s, i)
    ELSE SearchFileFrom(s, i + 1)

\* re.search(r'["\']([^"\']+\.[\w]+)["\']', s): the leftmost match
SearchFile(s) ==
    SearchFileFrom(s, 1)

\* the leftmost match of the quoted-token pattern at a position >= i of s
RECURSIVE SearchQuotedFrom(_, _)
SearchQuotedFrom(s, i) ==
    IF i > Len(s) THEN NoMatch
    ELSE IF IsQuote(s[i]) /\ QuotedTokenAt(s, i).found THEN QuotedTokenAt(s, i)
    ELSE SearchQuotedFrom(s, i + 1)

\* re.search(r'["\']([^"\']+)["\']', s)
SearchQuoted(s) ==
    SearchQuotedFrom(s, 1)

\* re.findall(r'["\']([^"\']+\.[\w]+)["\']', s): the non-overlapping matches from
\* position i on, left to right
RECURSIVE FindAllFile(_, _)
FindAllFile(s, i) ==
    LET m == SearchFileFrom(s, i)
    IN  IF ~m.found THEN <<>> ELSE <<m.group>> \o FindAllFile(s, m.end + 1)

\* position after the optional [是为] that follows 内容 at position i
AfterShiWei(s, i) ==
    IF i + 1 <= Len(s) /\ s[i + 1] \in {"zh_shi", "zh_wei"} THEN i + 2 ELSE i + 1

\* re.search(r'内容[是为]?["\']([^"\']+)["\']', s)
SearchQuotedContent(s) ==
    LET ms == {i \in 1..Len(s) :
                  s[i] = "zh_neirong" /\ QuotedTokenAt(s, AfterShiWei(s, i)).found}
    IN  IF ms = {} THEN NoMatch ELSE QuotedTokenAt(s, AfterShiWei(s, SetMin(ms)))

\* (.+) from position g: the characters up to the next newline
RestOfLine(s, g) ==
    SubSeq(s, g, FirstIn(s, g, {"\n"}) - 1)

\* where (.+) starts when \s*(.+) is matched from position k: \s* is greedy and gives
\* characters back until . (any character but a newline) matches; 0 if it never does
FreeTextStart(s, k) ==
    LET ws == {m \in k..(Len(s) + 1) : \A j \in k..(m - 1) : IsSpace(s[j])}
        ok == {g \in ws : g <= Len(s) /\ s[g] # "\n"}
    IN  IF ok = {} THEN 0 ELSE SetMax(ok)

\* 内容[是为]?\s*(.+) matched at position i: with the optional character taken first
FreeContentAt(s, i) ==
    LET g1 == FreeTextStart(s, AfterShiWei(s, i))
        g0 == FreeTextStart(s, i + 1)
        g  == IF g1 # 0 THEN g1 ELSE g0
    IN  IF i <= Len(s) /\ s[i] = "zh_neirong" /\ g # 0
        THEN [found |-> TRUE, group |-> RestOfLine(s, g), end |-> 0]
        ELSE NoMatch

\* re.search(r'内容[是为]?\s*(.+)', s)
SearchFreeContent(s) ==
    LET ms == {i \in 1..Len(s) : FreeContentAt(s, i).found}
    IN  IF ms = {} THEN NoMatch ELSE FreeContentAt(s, SetMin(ms))

\* the quote removal of method 2 (agent.py lines 138-145)
Unquote(content_part) ==
    IF StartsWith(content_part, <<"\"">>) /\ EndsWith(content_part, <<"\"">>)
    THEN SubSeq(content_part, 2, Len(content_part) - 1)
    ELSE IF StartsWith(content_part, <<"'">>) /\ EndsWith(content_part, <<"'">>)
    THEN SubSeq(content_part, 2, Len(content_part) - 1)
    ELSE content_part

\* the content of a create_file command (agent.py lines 126-145)
ExtractContent(lowered, original_input) ==
    LET m1 == SearchQuotedContent(original_input)
        content1 == IF Contains(lowered, <<"zh_neirong">>) /\ m1.found THEN m1.group ELSE <<>>
        m2 == SearchFreeContent(original_input)
    IN  IF content1 # <<>> THEN content1
        ELSE IF m2.found THEN Unquote(Strip(m2.group))
        ELSE <<>>

\* the fallback command (agent.py lines 200-203)
AiProcess(prompt) ==
    [operation |-> "ai_process", params |-> [prompt |-> prompt]]

\* the fallback with the lower-cased working copy as prompt
FallbackLowered(original_input, lowered) ==
    AiProcess(lowered)

\* the default return of _parse_command (agent.py lines 199-203): the prompt is the
\* stripped utterance in its original casing
Fallback(original_input, lowered) ==
    AiProcess(original_input)

\* the rules of _parse_command in the order of its if/elif chain, named by the
\* operation each emits
RuleOrder ==
    <<"create_file", "create_directory", "read_file", "list_files", "delete_file",
      "copy_file">>

\* the keyword condition of one rule, on the lower-cased utterance (agent.py lines 120,
\* 152, 163, 173, 180, 190)
RuleSatisfied(rule, lowered) ==
    LET has(k) == Contains(lowered, k)
    IN  CASE rule = "create_file" -> has(<<"zh_chuangjian">>) /\ has(<<"zh_wenjian">>)
          [] rule = "create_directory" ->
               has(<<"zh_chuangjian">>) /\ (has(<<"zh_mulu">>) \/ has(<<"zh_wenjian", "zh_jia">>))
          [] rule = "read_file" -> has(<<"zh_duqu">>) \/ has(<<"zh_chakan">>)
          [] rule = "list_files" -> has(<<"zh_liechu">>) \/ has(<<"zh_xianshi">>)
          [] rule = "delete_file" -> has(<<"zh_shanchu">>)
          [] rule = "copy_file" -> has(<<"zh_fuzhi">>) \/ has(<<"zh_kaobei">>)
          [] OTHER -> FALSE

\* the body of one rule: its command, or the fallback when its tokens cannot be
\* extracted (agent.py lines 121-150, 153-160, 164-170, 174-177, 181-187, 191-197)
RuleCommand(rule, original_input, lowered) ==
    LET file_match == SearchFile(original_input)
        dir_match == SearchQuoted(original_input)
        file_matches == FindAllFile(original_input, 1)
    IN  CASE rule = "create_file" /\ file_match.found ->
               [operation |-> "create_file",
                params |-> [path |-> file_match.group,
                            content |-> ExtractContent(lowered, original_input)]]
          [] rule = "create_directory" /\ dir_match.found ->
               [operation |-> "create_directory", params |-> [path |-> dir_match.group]]
          [] rule = "read_file" /\ file_match.found ->
               [operation |-> "read_file", params |-> [path |-> file_match.group]]
          [] rule = "list_files" ->
               [operation |-> "list_files",
                params |-> [path |-> <<".">>,
                            recursive |-> Contains(lowered, <<"zh_digui">>)]]
          [] rule = "delete_file" /\ file_match.found ->
               [operation |-> "delete_file", params |-> [path |-> file_match.group]]
          [] rule = "copy_file" /\ Len(file_matches) >= 2 ->
               [operation |-> "copy_file",
                params |-> [src_path |-> file_matches[1], dst_path |-> file_matches[2]]]
          [] OTHER -> AiProcess(original_input)

\* the rules from the i-th on tried as independent ifs: the first that is satisfied and
\* extracts its tokens gives the command
RECURSIVE TryRulesFrom(_, _, _)
TryRulesFrom(i, original_input, lowered) ==
    IF i > Len(RuleOrder) THEN AiProcess(original_input)
    ELSE IF RuleSatisfied(RuleOrder[i], lowered)
            /\ RuleCommand(RuleOrder[i], original_input, lowered).operation # "ai_process"
    THEN RuleCommand(RuleOrder[i], original_input, lowered)
    ELSE TryRulesFrom(i + 1, original_input, lowered)

\* the variant of _parse_command whose rules are independent ifs, so that a rule that
\* fails to extract its tokens lets a later rule apply
parse_command_fallthrough(input) ==
    TryRulesFrom(1, Strip(input), Strip(Lower(input)))

\* the first rule of RuleOrder, from the i-th on, whose keyword condition holds; "none"
\* if none does
RECURSIVE FirstRuleFrom(_, _)
FirstRuleFrom(i, lowered) ==
    IF i > Len(RuleOrder) THEN "none"
    ELSE IF RuleSatisfied(RuleOrder[i], lowered) THEN RuleOrder[i]
    ELSE FirstRuleFrom(i + 1, lowered)

\* the variant of _parse_command whose delete rule takes the first quoted token,
\* whatever its form
parse_command_delete_any_quoted(input) ==
    LET original_input == Strip(input)
        lowered == Strip(Lower(input))
        first == FirstRuleFrom(1, lowered)
        dir_match == SearchQuoted(original_input)
    IN  IF first = "delete_file" /\ dir_match.found
        THEN [operation |-> "delete_file", params |-> [path |-> dir_match.group]]
        ELSE RuleCommand(first, original_input, lowered)

\* the variant of _parse_command whose copy rule takes the tokens in the other order
parse_command_copy_swapped(input) ==
    LET original_input == Strip(input)
        lowered == Strip(Lower(input))
        first == FirstRuleFrom(1, lowered)
        file_matches == FindAllFile(original_input, 1)
    IN  IF first = "copy_file" /\ Len(file_matches) >= 2
        THEN [operation |-> "copy_file",
              params |-> [src_path |-> file_matches[2], dst_path |-> file_matches[1]]]
        ELSE RuleCommand(first, original_input, lowered)

\* the variant of _parse_command whose list rule emits an operation that is not
\* registered
parse_command_list_unregistered(input) ==
    LET original_input == Strip(input)
        lowered == Strip(Lower(input))
        first == FirstRuleFrom(1, lowered)
    IN  IF first = "list_files"
        THEN [operation |-> "list_directory", params |-> [path |-> <<".">>]]
        ELSE RuleCommand(first, original_input, lowered)

\* FileAgent._parse_command
parse_command(input) ==
    LET original_input == Strip(input)
        lowered == Strip(Lower(input))
        has(k) == Contains(lowered, k)
        file_match == SearchFile(original_input)
        dir_match == SearchQuoted(original_input)
        file_matches == FindAllFile(original_input, 1)
        fallback == Fallback(original_input, lowered)
    IN  IF has(<<"zh_chuangjian">>) /\ has(<<"zh_wenjian">>)
        THEN IF file_match.found
             THEN [operation |-> "create_file",
                   params |-> [path |-> file_match.group,
                               content |-> ExtractContent(lowered, original_input)]]
             ELSE fallback
        ELSE IF has(<<"zh_chuangjian">>)
                /\ (has(<<"zh_mulu">>) \/ has(<<"zh_wenjian", "zh_jia">>))
        THEN IF dir_match.found
             THEN [operation |-> "create_directory", params |-> [path |-> dir_match.group]]
             ELSE fallback
        ELSE IF has(<<"zh_duqu">>) \/ has(<<"zh_chakan">>)
        THEN IF file_match.found
             THEN [operation |-> "read_file", params |-> [path |-> file_match.group]]
             ELSE fallback
        ELSE IF has(<<"zh_liechu">>) \/ has(<<"zh_xianshi">>)
        THEN [operation |-> "list_files",
              params |-> [path |-> <<".">>, recursive |-> has(<<"zh_digui">>)]]
        ELSE IF has(<<"zh_shanchu">>)
        THEN IF file_match.found
             THEN [operation |-> "delete_file", params |-> [path |-> file_match.group]]
             ELSE fallback
        ELSE IF has(<<"zh_fuzhi">>) \/ has(<<"zh_kaobei">>)
        THEN IF Len(file_matches) >= 2
             THEN [operation |-> "copy_file",
                   params |-> [src_path |-> file_matches[1], dst_path |-> file_matches[2]]]
             ELSE fallback
        ELSE fallback

\* ------------------------------------------------- AI response directives
\* self.file_operations (agent.py lines 47-56)
file_operations ==
    {"create_file", "read_file", "write_file", "delete_file", "move_file", "copy_file",
     "create_directory", "list_files"}

\* No match of execute_pattern
NoDirective ==
    [found |-> FALSE, name |-> <<>>, params_str |-> <<>>, end |-> 0]

\* first position >= i that is not white space (\s* is greedy)
SkipSpace(s, i) ==
    FirstNotIn(s, i, {" ", "\n"})

\* position after the longest run of word tokens from i (\w+ is greedy)
RECURSIVE SkipWord(_, _)
SkipWord(s, i) ==
    IF i > Len(s) \/ ~IsWord(s[i]) THEN i ELSE SkipWord(s, i + 1)

\* first position e >= i with s[e] = ")" that white space or the end of s follows, 0 if
\* none: where the lazy (.*?) followed by \)(?:\s|$) stops
RECURSIVE FirstClose(_, _)
FirstClose(s, i) ==
    IF i > Len(s) THEN 0
    ELSE IF s[i] = ")" /\ (i = Len(s) \/ IsSpace(s[i + 1])) THEN i
    ELSE FirstClose(s, i + 1)

\* EXECUTE:\s*(\w+)\((.*?)\)(?:\s|$) matched at position i of s (re.DOTALL): the lazy
\* (.*?) ends at the first ")" that white space or the end of the text follows
DirectiveAt(s, i) ==
    LET n == SkipSpace(s, i + 1)
        o == SkipWord(s, n)
        e == FirstClose(s, o + 1)
    IN  IF i <= Len(s) /\ s[i] = "EXECUTE:" /\ o > n /\ o <= Len(s) /\ s[o] = "("
           /\ e # 0
        THEN [found |-> TRUE, name |-> SubSeq(s, n, o - 1),
              params_str |-> SubSeq(s, o + 1, e - 1),
              end |-> IF e < Len(s) THEN e + 1 ELSE e]
        ELSE NoDirective

\* re.findall(execute_pattern, response_text, re.DOTALL) from position i on: the
\* non-overlapping matches, left to right, as (operation_name, params_str)
RECURSIVE FindDirectives(_, _)
FindDirectives(s, i) ==
    IF i > Len(s) THEN <<>>
    ELSE IF s[i] = "EXECUTE:" /\ DirectiveAt(s, i).found
    THEN LET m == DirectiveAt(s, i)
         IN  <<[name |-> m.name, params_str |-> m.params_str]>>
             \o FindDirectives(s, m.end + 1)
    ELSE FindDirectives(s, i + 1)

\* Python: s.split(sep), sep a non-empty sequence of characters
RECURSIVE SplitFrom(_, _, _)
SplitFrom(s, i, sep) ==
    IF i + Len(sep) - 1 > Len(s) THEN <<s>>
    ELSE IF SubSeq(s, i, i + Len(sep) - 1) = sep
    THEN <<SubSeq(s, 1, i - 1)>> \o SplitFrom(From(s, i + Len(sep)), 1, sep)
    ELSE SplitFrom(s, i + 1, sep)

Split(s, sep) ==
    SplitFrom(s, 1, sep)

\* the items of a list display: split at the commas that are outside string literals
RECURSIVE ListItems(_, _, _)
ListItems(s, i, open) ==
    IF i > Len(s) THEN <<s>>
    ELSE IF open = "" /\ s[i] = ","
    THEN <<SubSeq(s, 1, i - 1)>> \o ListItems(From(s, i + 1), 1, "")
    ELSE IF open = "" /\ IsQuote(s[i]) THEN ListItems(s, i + 1, s[i])
    ELSE IF open # "" /\ s[i] = open THEN ListItems(s, i + 1, "")
    ELSE ListItems(s, i + 1, open)

\* t is one string literal: a quote, characters without that quote or a newline, the
\* same quote
IsStringLiteral(t) ==
    /\ Len(t) >= 2
    /\ IsQuote(t[1])
    /\ t[Len(t)] = t[1]
    /\ \A j \in 2..(Len(t) - 1) : t[j] # t[1] /\ t[j] # "\n"

\* ast.literal_eval(f"[{params_str}]") on the texts of this model, whose literals are
\* string literals: the list of their values, or an exception (ok = FALSE) when an item
\* is anything else (a bare name, an unterminated string, a stray parenthesis)
literal_eval(params_str) ==
    LET raw == ListItems(params_str, 1, "")
        \* a trailing comma is allowed after the last item
        items == IF Len(raw) >= 2 /\ Strip(raw[Len(raw)]) = <<>>
                 THEN SubSeq(raw, 1, Len(raw) - 1) ELSE raw
        ok == \A k \in 1..Len(items) : IsStringLiteral(Strip(items[k]))
    IN  [ok |-> ok,
         list |-> IF ok
                  THEN [k \in 1..Len(items) |->
                           SubSeq(Strip(items[k]), 2, Len(Strip(items[k])) - 1)]
                  ELSE <<>>]

\* the naive comma split (agent.py line 318)
NaiveSplit(params_str) ==
    LET parts == Split(params_str, <<",">>)
    IN  [k \in 1..Len(parts) |-> StripChars(Strip(parts[k]), {"\"", "'"})]

\* params_list of one directive (agent.py lines 299-318)
ParseParams(params_str) ==
    LET p == Strip(params_str)
        sep == <<"\"", ",", " ", "\"">>
        parts == Split(p, sep)
    IN  IF p = <<>> THEN <<>>
        ELSE IF StartsWith(p, <<"\"">>) /\ Contains(p, sep)
        THEN [k \in 1..Len(parts) |-> StripChars(parts[k], {"\""})]
        ELSE IF StartsWith(p, <<"\"">>) /\ EndsWith(p, <<"\"">>)
        THEN <<StripChars(p, {"\""})>>
        ELSE IF literal_eval(p).ok THEN literal_eval(p).list
        ELSE NaiveSplit(p)

\* ------------------------------------------------------------ collaborators
\* What a call of a collaborator can do: return success, return failure, or raise.
\* The primitives of file_manager.py return {"success": True/False, "message": ...};
\* an exception leaving one is what the handlers at agent.py lines 349 and 375 are for.
Outcome ==
    {"ok", "fail", "raise"}

\* the exception a collaborator raised, as execute sees it
Exception(text) ==
    [exception |-> text]

IsException(r) ==
    "exception" \in DOMAIN r

\* op_result["message"] of a primitive (file_manager.py), paths = its path arguments
PrimMessage(name, paths, ok) ==
    LET p1 == IF Len(paths) >= 1 THEN paths[1] ELSE <<>>
        p2 == IF Len(paths) >= 2 THEN paths[2] ELSE <<>>
    IN  CASE name = "create_file" ->
               IF ok THEN <<"File created successfully: ">> \o p1
               ELSE <<"Failed to create file: ", "err">>
          [] name = "read_file" ->
               IF ok THEN <<"File read successfully: ">> \o p1
               ELSE <<"File not found: ">> \o p1
          [] name = "write_file" ->
               IF ok THEN <<"Content written to file successfully: ">> \o p1
               ELSE <<"Failed to write to file: ", "err">>
          [] name = "delete_file" ->
               IF ok THEN <<"File deleted successfully: ">> \o p1
               ELSE <<"File not found: ">> \o p1
          [] name = "move_file" ->
               IF ok THEN <<"File moved successfully from ">> \o p1 \o <<" to ">> \o p2
               ELSE <<"Source file not found: ">> \o p1
          [] name = "copy_file" ->
               IF ok THEN <<"File copied successfully from ">> \o p1 \o <<" to ">> \o p2
               ELSE <<"Source file not found: ">> \o p1
          [] name = "create_directory" ->
               IF ok THEN <<"Directory created successfully: ">> \o p1
               ELSE <<"Failed to create directory: ", "err">>
          [] name = "list_files" ->
               IF ok THEN <<"Directory listing for: ">> \o p1
               ELSE <<"Directory not found: ">> \o p1
          \* a callable that is none of the eight: none is registered
          [] OTHER -> <<"done">>

\* the dict a primitive returns, or the exception it raises
PrimResult(name, paths, o) ==
    IF o = "raise" THEN Exception(<<"err">>)
    ELSE [success |-> o = "ok", message |-> PrimMessage(name, paths, o = "ok")]

\* one call of a collaborator, as recorded in trace: what was called, with what, and
\* how the call ended ("pending" until it has)
Call(name, args) ==
    [call |-> name, args |-> args, outcome |-> "pending"]

\* the call c has ended with outcome o
Ended(c, o) ==
    [c EXCEPT !.outcome = o]

\* ai_provider.generate_response is called
AiCall ==
    Call("generate_response", <<>>)

\* the pending call (the last of trace t) has ended with outcome o
Returned(t, o) ==
    [t EXCEPT ![Len(t)] = Ended(t[Len(t)], o)]

\* the dict generate_response returns (ai_providers.py): success with the text, the
\* model and the usage; failure with the error and the model
AiSuccess(text) ==
    [success |-> TRUE, response |-> text, model |-> "model", usage |-> "usage"]

AiFailure ==
    [success |-> FALSE, error |-> <<"api error">>, model |-> "model"]

\* Python: d.get(key, default); d.get(key) is Get(d, key, "None")
Get(d, key, default) ==
    IF key \in DOMAIN d THEN d[key] ELSE default

\* ----------------------------------------------------------- directive loop
\* operation_name in self.file_operations; a name of several word tokens is none of
\* the eight
Registered(name) ==
    Len(name) = 1 /\ name[1] \in file_operations

\* no primitive is called for a directive
NoCall ==
    [called |-> FALSE, call |-> Call("", <<>>)]

\* the if/elif chain that maps a registered directive to a call (agent.py lines
\* 321-347); a directive no branch takes calls nothing and appends nothing
Dispatch(operation_name, params_list) ==
    LET n == Len(params_list)
    IN  IF operation_name = "create_file" /\ n >= 1
        THEN [called |-> TRUE,
              call |-> Call(operation_name,
                            <<params_list[1], IF n > 1 THEN params_list[2] ELSE <<>> >>)]
        ELSE IF operation_name = "list_files"
        THEN [called |-> TRUE,
              call |-> Call(operation_name,
                            <<IF n >= 1 THEN params_list[1] ELSE <<".">>,
                              IF n > 1 THEN params_list[2] ELSE <<"*">> >>)]
        ELSE IF operation_name \in {"read_file", "delete_file"} /\ n >= 1
        THEN [called |-> TRUE, call |-> Call(operation_name, <<params_list[1]>>)]
        ELSE IF operation_name \in {"move_file", "copy_file"} /\ n >= 2
        THEN [called |-> TRUE,
              call |-> Call(operation_name, <<params_list[1], params_list[2]>>)]
        ELSE IF operation_name = "create_directory" /\ n >= 1
        THEN [called |-> TRUE, call |-> Call(operation_name, <<params_list[1]>>)]
        ELSE NoCall

\* the path arguments of a call made by the directive loop
CallPaths(c) ==
    IF c.call \in {"move_file", "copy_file"} THEN c.args
    ELSE IF c.args # <<>> THEN <<c.args[1]>>
    ELSE <<>>

\* the entry appended to executed_operations for a call with outcome o (agent.py
\* lines 325, 331, 336, 342, 347, 350): the success marker and the message whatever
\* op_result["success"] is, the failure marker only when the call raised
Entry(c, o) ==
    IF o = "raise"
    THEN <<"FAIL_MARK", " ", c.call, ":", " ", "Error - ", "err">>
    ELSE IF c.call = "list_files"
    THEN <<"OK_MARK", " ", c.call, ":", " ", "Found ",
           IF o = "ok" THEN "total_files" ELSE "0", " files">>
    ELSE <<"OK_MARK", " ", c.call, ":", " ">> \o PrimMessage(c.call, CallPaths(c), o = "ok")

\* the variant of DirectiveCall that calls whatever the directive names
DirectiveCallAnyName(m) ==
    IF Len(m.name) = 1
    THEN [called |-> TRUE, call |-> Call(m.name[1], ParseParams(m.params_str))]
    ELSE NoCall

\* the call one match of execute_pattern leads to, if any (agent.py lines 296-347)
DirectiveCall(m) ==
    IF Registered(m.name)
    THEN Dispatch(m.name[1], ParseParams(m.params_str))
    ELSE NoCall

\* the variant of RunDirectives whose try/except is around the whole loop: the first
\* call that raises ends it
RECURSIVE RunDirectivesAbort(_, _)
RunDirectivesAbort(matches, outs) ==
    IF matches = <<>> THEN [calls |-> <<>>, executed |-> <<>>]
    ELSE LET d == DirectiveCall(Head(matches))
             o == IF outs = <<>> THEN "ok" ELSE Head(outs)
             rest == IF d.called /\ o = "raise" THEN [calls |-> <<>>, executed |-> <<>>]
                     ELSE RunDirectivesAbort(Tail(matches),
                                             IF d.called /\ outs # <<>> THEN Tail(outs)
                                             ELSE outs)
         IN  IF d.called
             THEN [calls |-> <<Ended(d.call, o)>> \o rest.calls,
                   executed |-> <<Entry(d.call, o)>> \o rest.executed]
             ELSE rest

\* the for loop over the matches (agent.py lines 295-350); outs are the outcomes of
\* the calls it makes, in order (a call without one returns success)
RECURSIVE RunDirectives(_, _)
RunDirectives(matches, outs) ==
    IF matches = <<>> THEN [calls |-> <<>>, executed |-> <<>>]
    ELSE LET d == DirectiveCall(Head(matches))
             o == IF outs = <<>> THEN "ok" ELSE Head(outs)
             rest == RunDirectives(Tail(matches),
                                   IF d.called /\ outs # <<>> THEN Tail(outs) ELSE outs)
         IN  IF d.called
             THEN [calls |-> <<Ended(d.call, o)>> \o rest.calls,
                   executed |-> <<Entry(d.call, o)>> \o rest.executed]
             ELSE rest

\* re.sub(r'EXECUTE:.*?\n?', '', s): the lazy .*? matches nothing, so each match is
\* the marker and the newline that directly follows it, if one does
RECURSIVE RemoveExecute(_)
RemoveExecute(s) ==
    IF s = <<>> THEN <<>>
    ELSE IF Head(s) = "EXECUTE:"
    THEN IF Len(s) >= 2 /\ s[2] = "\n"
         THEN RemoveExecute(From(s, 3)) ELSE RemoveExecute(Tail(s))
    ELSE <<Head(s)>> \o RemoveExecute(Tail(s))

\* Python: "\n".join(lines)
RECURSIVE JoinLines(_)
JoinLines(lines) ==
    IF lines = <<>> THEN <<>>
    ELSE IF Len(lines) = 1 THEN lines[1]
    ELSE lines[1] \o <<"\n">> \o JoinLines(Tail(lines))

\* the header of the summary, "\n\n执行的操作：\n"
SummaryHeader ==
    <<"\n", "\n", "zh_zhixingdecaozuo:", "\n">>

\* final_message (agent.py lines 353-357)
FinalMessage(text, executed) ==
    IF executed # <<>>
    THEN Strip(RemoveExecute(text)) \o SummaryHeader \o JoinLines(executed)
    ELSE text

\* ------------------------------------------------------------- file manager
\* FileManager (src/file_agent/file_manager.py) on a workspace of three paths: a file
\* in the workspace, a subdirectory, and a file of the same name in the subdirectory.
Paths ==
    {"a.txt", "sub", "sub/a.txt"}

\* the paths that hold a file or nothing, never a directory: the files the primitives
\* move and copy
FilePaths ==
    {"a.txt", "sub/a.txt"}

\* Path(p).parent; "" is the workspace directory itself
Parent(p) ==
    IF p = "sub/a.txt" THEN "sub" ELSE ""

\* Path(p).name
BaseName(p) ==
    IF p = "sub/a.txt" THEN "a.txt" ELSE p

\* os.path.join(d, name) for a directory d of the workspace
Join(d, name) ==
    IF d = "sub" /\ name = "a.txt" THEN "sub/a.txt" ELSE name

\* what is at a path: nothing, a directory, or a file with its content on disk
NoNode ==
    [kind |-> "none"]

DirNode ==
    [kind |-> "dir"]

FileNode(content) ==
    [kind |-> "file", content |-> content]

\* "none", "dir" or "file"; the workspace directory exists (file_manager.py line 33)
Kind(tree, p) ==
    IF p = "" THEN "dir" ELSE tree[p].kind

\* the texts the primitives are given to write; "\r" is a carriage return
Contents ==
    { <<"x">>, <<"y", "\r", "z">> }

\* os.linesep of the platform (POSIX)
linesep ==
    <<"\n">>

\* f.write(content) on a file opened in text mode with the default newline=None: every
\* "\n" is written as os.linesep
RECURSIVE Written(_)
Written(content) ==
    IF content = <<>> THEN <<>>
    ELSE (IF Head(content) = "\n" THEN linesep ELSE <<Head(content)>>)
         \o Written(Tail(content))

\* f.read() on a file opened in text mode with the default newline=None (universal
\* newlines): "\r\n" and a lone "\r" are read as "\n"
RECURSIVE ReadText(_)
ReadText(data) ==
    IF data = <<>> THEN <<>>
    ELSE IF Head(data) = "\r"
    THEN <<"\n">> \o ReadText(IF Len(data) >= 2 /\ data[2] = "\n"
                              THEN From(data, 3) ELSE Tail(data))
    ELSE <<Head(data)>> \o ReadText(Tail(data))

\* backup_enabled and the condition of the backup directory: "off" (backup_enabled is
\* False), "on", "failing" (shutil.copy2 into it raises: it is full or read-only),
\* "blocked" (backup_dir.mkdir raises: something that is no directory is in its place)
BackupModes ==
    {"off", "on", "failing", "blocked"}

\* backup_name (file_manager.py lines 52-53): the file's name and the time in seconds
BackupName(p, now) ==
    <<BaseName(p), now>>

\* the world a primitive runs in
World(tree, bk, mode, now) ==
    [fs |-> tree, backups |-> bk, mode |-> mode, clock |-> now]

\* file_path.parent.mkdir(parents=True, exist_ok=True): makes the directory d if nothing
\* is there, raises FileExistsError (ok = FALSE) if a file is
mkdir(tree, d) ==
    CASE Kind(tree, d) = "dir" -> [ok |-> TRUE, fs |-> tree]
      [] Kind(tree, d) = "none" -> [ok |-> TRUE, fs |-> [tree EXCEPT ![d] = DirNode]]
      [] OTHER -> [ok |-> FALSE, fs |-> tree]

\* no backup was asked for
NoBackup(w) ==
    [w |-> w, made |-> FALSE, backup_path |-> <<>>, raised |-> FALSE]

\* the variant of _create_backup without the try around the copy: a copy that fails
\* raises into the primitive
create_backup_unguarded(w, p) ==
    IF w.mode = "off" \/ Kind(w.fs, p) = "none" THEN NoBackup(w)
    ELSE IF w.mode \in {"blocked", "failing"} \/ Kind(w.fs, p) = "dir"
    THEN [NoBackup(w) EXCEPT !.raised = TRUE]
    ELSE [w |-> [w EXCEPT !.backups = (BackupName(p, w.clock) :> w.fs[p].content)
                                       @@ w.backups],
          made |-> TRUE, backup_path |-> BackupName(p, w.clock), raised |-> FALSE]

\* FileManager._create_backup (file_manager.py lines 44-62): None when backups are off
\* or nothing is at p; backup_dir.mkdir is outside the try, so its exception leaves the
\* function; a copy that fails (the backup directory refuses it, or p is a directory)
\* is logged and None returned; a copy to a name that exists overwrites it
create_backup(w, p) ==
    IF w.mode = "off" \/ Kind(w.fs, p) = "none" THEN NoBackup(w)
    ELSE IF w.mode = "blocked" THEN [NoBackup(w) EXCEPT !.raised = TRUE]
    ELSE IF w.mode = "failing" \/ Kind(w.fs, p) = "dir" THEN NoBackup(w)
    ELSE [w |-> [w EXCEPT !.backups = (BackupName(p, w.clock) :> w.fs[p].content)
                                       @@ w.backups],
          made |-> TRUE, backup_path |-> BackupName(p, w.clock), raised |-> FALSE]

\* the backup a primitive takes of p if something is there
BackupIfExists(w, p) ==
    IF Kind(w.fs, p) # "none" THEN create_backup(w, p) ELSE NoBackup(w)

\* the except branch of a primitive: the world as the exception left it, and a failure
\* result
Failed(w, message) ==
    [w |-> w, result |-> [success |-> FALSE, message |-> message]]

\* the success return of a primitive
Succeeded(w, message) ==
    [w |-> w, result |-> [success |-> TRUE, message |-> message]]

\* FileManager.create_file (file_manager.py lines 64-103)
create_file(w, path, content) ==
    LET m == mkdir(w.fs, Parent(path))
        w1 == [w EXCEPT !.fs = m.fs]
        b == BackupIfExists(w1, path)
    IN  IF ~m.ok THEN Failed(w, "Failed to create file")
        ELSE IF b.raised \/ Kind(w1.fs, path) = "dir"
        THEN Failed(b.w, "Failed to create file")
        ELSE Succeeded([b.w EXCEPT !.fs[path] = FileNode(Written(content))],
                       "File created successfully")

\* FileManager.read_file (file_manager.py lines 105-144)
read_file(w, path) ==
    IF Kind(w.fs, path) = "none" THEN Failed(w, "File not found")
    ELSE IF Kind(w.fs, path) = "dir" THEN Failed(w, "Failed to read file")
    ELSE [w |-> w,
          result |-> [success |-> TRUE, message |-> "File read successfully",
                      content |-> ReadText(w.fs[path].content)]]

\* the variant of write_file that ignores append: the file is opened with mode 'w' after
\* a backup, as create_file opens it
write_file_ignoring_append(w, path, content, append) ==
    create_file(w, path, content)

\* FileManager.write_file (file_manager.py lines 146-187)
write_file(w, path, content, append) ==
    LET m == mkdir(w.fs, Parent(path))
        w1 == [w EXCEPT !.fs = m.fs]
        b == IF ~append THEN BackupIfExists(w1, path) ELSE NoBackup(w1)
        old == IF Kind(w1.fs, path) = "file" THEN w1.fs[path].content ELSE <<>>
    IN  IF ~m.ok THEN Failed(w, "Failed to write to file")
        ELSE IF b.raised \/ Kind(w1.fs, path) = "dir"
        THEN Failed(b.w, "Failed to write to file")
        ELSE IF append
        THEN Succeeded([b.w EXCEPT !.fs[path] = FileNode(old \o Written(content))],
                       "Content appended to file successfully")
        ELSE Succeeded([b.w EXCEPT !.fs[path] = FileNode(Written(content))],
                       "Content written to file successfully")

\* the variant of delete_file without the existence check, as unlink(missing_ok=True)
\* would have it: deleting what is not there succeeds
delete_file_missing_ok(w, path) ==
    LET b == create_backup(w, path)
        done == Succeeded([b.w EXCEPT !.fs[path] = NoNode], "File deleted successfully")
    IN  IF b.raised \/ Kind(w.fs, path) = "dir"
        THEN Failed(b.w, "Failed to delete file")
        ELSE IF b.made
        THEN [done EXCEPT !.result = done.result @@ [backup |-> b.backup_path]]
        ELSE done

\* FileManager.delete_file (file_manager.py lines 189-232)
delete_file(w, path) ==
    LET b == create_backup(w, path)
        done == Succeeded([b.w EXCEPT !.fs[path] = NoNode], "File deleted successfully")
    IN  IF Kind(w.fs, path) = "none" THEN Failed(w, "File not found")
        ELSE IF b.raised \/ Kind(w.fs, path) = "dir"
        THEN Failed(b.w, "Failed to delete file")
        ELSE IF b.made
        THEN [done EXCEPT !.result = done.result @@ [backup |-> b.backup_path]]
        ELSE done

\* where shutil.move and shutil.copy2 put src when told dst: in dst if dst is a
\* directory, at dst otherwise
RealDst(tree, src, dst) ==
    IF Kind(tree, dst) = "dir" THEN Join(dst, BaseName(src)) ELSE dst

\* FileManager.move_file (file_manager.py lines 234-280), src one of FilePaths.
\* shutil.move into a directory raises if the name is taken there; os.rename of a file
\* onto itself does nothing
move_file(w, src, dst) ==
    LET m == mkdir(w.fs, Parent(dst))
        w1 == [w EXCEPT !.fs = m.fs]
        b == BackupIfExists(w1, dst)
        real_dst == RealDst(w1.fs, src, dst)
    IN  IF Kind(w.fs, src) = "none" THEN Failed(w, "Source file not found")
        ELSE IF ~m.ok THEN Failed(w, "Failed to move file")
        ELSE IF b.raised THEN Failed(b.w, "Failed to move file")
        ELSE IF Kind(w1.fs, dst) = "dir" /\ Kind(w1.fs, real_dst) # "none"
        THEN Failed(b.w, "Failed to move file")
        ELSE IF real_dst = src THEN Succeeded(b.w, "File moved successfully")
        ELSE Succeeded([b.w EXCEPT !.fs[real_dst] = w1.fs[src], !.fs[src] = NoNode],
                       "File moved successfully")

\* FileManager.copy_file (file_manager.py lines 282-329), src one of FilePaths.
\* shutil.copy2 into a directory writes the file of src's name there, whatever is
\* there; it raises SameFileError if source and destination are one file
copy_file(w, src, dst) ==
    LET m == mkdir(w.fs, Parent(dst))
        w1 == [w EXCEPT !.fs = m.fs]
        b == BackupIfExists(w1, dst)
        real_dst == RealDst(w1.fs, src, dst)
    IN  IF Kind(w.fs, src) = "none" THEN Failed(w, "Source file not found")
        ELSE IF ~m.ok THEN Failed(w, "Failed to copy file")
        ELSE IF b.raised \/ real_dst = src THEN Failed(b.w, "Failed to copy file")
        ELSE Succeeded([b.w EXCEPT !.fs[real_dst] = w1.fs[src]],
                       "File copied successfully")

\* FileManager.create_directory (file_manager.py lines 331-357), path = "sub"
create_directory(w, path) ==
    IF mkdir(w.fs, path).ok
    THEN Succeeded([w EXCEPT !.fs = mkdir(w.fs, path).fs], "Directory created successfully")
    ELSE Failed(w, "Failed to create directory")

\* a call of a primitive: its name and its arguments (those it does not take are "",
\* <<>> and FALSE)
FmCall(name, path, dst, content, append) ==
    [name |-> name, path |-> path, dst |-> dst, content |-> content, append |-> append]

\* no primitive has been called
NoFmCall ==
    FmCall("", "", "", <<>>, FALSE)

\* the call c made in the world w: the world after it and the dict it returns
Apply(w, c) ==
    CASE c.name = "create_file" -> create_file(w, c.path, c.content)
      [] c.name = "read_file" -> read_file(w, c.path)
      [] c.name = "write_file" -> write_file(w, c.path, c.content, c.append)
      [] c.name = "delete_file" -> delete_file(w, c.path)
      [] c.name = "move_file" -> move_file(w, c.path, c.dst)
      [] c.name = "copy_file" -> copy_file(w, c.path, c.dst)
      [] c.name = "create_directory" -> create_directory(w, c.path)

\* the workspaces a FileManager is constructed on (file_manager.py line 33 keeps what
\* is there): an empty one, one with a file, one with the file and its namesake in the
\* subdirectory
InitWorkspaces ==
    { [p \in Paths |-> NoNode],
      [p \in Paths |-> IF p = "a.txt" THEN FileNode(<<"x">>) ELSE NoNode],
      [p \in Paths |-> CASE p = "a.txt" -> FileNode(<<"x">>)
                         [] p = "sub" -> DirNode
                         [] p = "sub/a.txt" -> FileNode(<<"w">>)] }

\* ------------------------------------------------------------------ config
\* Config (src/file_agent/config.py). A key is a text whose tokens are words without an
\* underscore, "_" and ".", so that "ai.default_provider" is ai . default _ provider.
\* A value is a string, a number, a boolean, None or a dict from names to values.
\* Strings, numbers and booleans are written as Python prints them.
Str(s) ==
    [type |-> "str", v |-> s]

Num(n) ==
    [type |-> "num", v |-> n]

Bool(b) ==
    [type |-> "bool", v |-> b]

NoneVal ==
    [type |-> "none"]

Dict(items) ==
    [type |-> "dict", items |-> items]

\* {}
EmptyDict ==
    Dict(<<>>)

\* Python: isinstance(value, dict) and k in value
HasKey(value, k) ==
    value.type = "dict" /\ k \in DOMAIN value.items

\* the items of a dict after d[k] = v
Put(items, k, v) ==
    (k :> v) @@ items

\* Python: c.upper() on one token of a key
UpperTok(c) ==
    CASE c = "ai" -> "AI"
      [] c = "default" -> "DEFAULT"
      [] c = "provider" -> "PROVIDER"
      [] c = "deep" -> "DEEP"
      [] c = "nested" -> "NESTED"
      [] c = "key" -> "KEY"
      [] OTHER -> c

\* env_key = key.upper().replace('.', '_') (config.py line 122)
EnvKey(key) ==
    [i \in 1..Len(key) |-> IF UpperTok(key[i]) = "." THEN "_" ELSE UpperTok(key[i])]

\* os.getenv(name): the value of the variable, None if it is not set
getenv(env, name) ==
    IF name \in DOMAIN env THEN Str(env[name]) ELSE NoneVal

\* the names of self.defaults, as keys are written
N_default_provider ==
    <<"default", "_", "provider">>

\* self.defaults (config.py lines 33-51)
defaults ==
    Dict(
        (<<"ai">> :> Dict(
            (N_default_provider :> Str("openai"))
            @@ (<<"default", "_", "model">> :> Str("gpt-3.5-turbo"))
            @@ (<<"max", "_", "tokens">> :> Num("1000"))
            @@ (<<"temperature">> :> Num("0.7"))))
        @@ (<<"file", "_", "manager">> :> Dict(
            (<<"default", "_", "workspace">> :> Str("./workspace"))
            @@ (<<"max", "_", "file", "_", "size", "_", "mb">> :> Num("10"))
            @@ (<<"backup", "_", "enabled">> :> Bool("True"))
            @@ (<<"backup", "_", "dir">> :> Str("./backups"))))
        @@ (<<"logging">> :> Dict(
            (<<"level">> :> Str("INFO"))
            @@ (<<"file">> :> Str("./logs/agent.log"))
            @@ (<<"format">> :> Str("format")))))

\* the loop over keys in self.config_data (config.py lines 129-136): None as soon as a
\* name is missing or the value reached is no dict
RECURSIVE ConfigLookup(_, _)
ConfigLookup(value, keys) ==
    IF keys = <<>> THEN value
    ELSE IF HasKey(value, Head(keys))
    THEN ConfigLookup(value.items[Head(keys)], Tail(keys))
    ELSE NoneVal

\* the loop over keys in self.defaults (config.py lines 142-149): the caller's default
\* as soon as a name is missing or the value reached is no dict
RECURSIVE DefaultLookup(_, _, _)
DefaultLookup(value, keys, default) ==
    IF keys = <<>> THEN value
    ELSE IF HasKey(value, Head(keys))
    THEN DefaultLookup(value.items[Head(keys)], Tail(keys), default)
    ELSE default

\* the variant of Config.get that looks in the configuration before the environment
config_get_config_first(data, env, key, default) ==
    LET env_value == getenv(env, EnvKey(key))
        keys == Split(key, <<".">>)
        value == ConfigLookup(data, keys)
    IN  IF value # NoneVal THEN value
        ELSE IF env_value # NoneVal THEN env_value
        ELSE DefaultLookup(defaults, keys, default)

\* Config.get (config.py lines 110-149)
config_get(data, env, key, default) ==
    LET env_value == getenv(env, EnvKey(key))
        keys == Split(key, <<".">>)
        value == ConfigLookup(data, keys)
    IN  IF env_value # NoneVal THEN env_value
        ELSE IF value # NoneVal THEN value
        ELSE DefaultLookup(defaults, keys, default)

\* config[k1][k2]...[kn] = value with the missing dicts created on the way (config.py
\* lines 159-168); ok = FALSE is the TypeError of going through a value that is no dict
RECURSIVE SetIn(_, _, _)
SetIn(config, keys, value) ==
    IF config.type # "dict" THEN [ok |-> FALSE, value |-> config]
    ELSE IF Len(keys) = 1 THEN [ok |-> TRUE, value |-> Dict(Put(config.items, keys[1], value))]
    ELSE LET k == Head(keys)
             child == IF k \in DOMAIN config.items THEN config.items[k] ELSE EmptyDict
             r == SetIn(child, Tail(keys), value)
         IN  IF r.ok THEN [ok |-> TRUE, value |-> Dict(Put(config.items, k, r.value))]
             ELSE [ok |-> FALSE, value |-> config]

\* Config.set (config.py lines 151-168): config_data after the call, and whether it
\* raised
config_set(data, key, value) ==
    SetIn(data, Split(key, <<".">>), value)

\* the keys get and set are called with: a leaf with a built-in default, its section,
\* a key under the leaf, a key without a default (test_config.py line 167), and a key
\* that names the same environment variable as the first
CfgKeys ==
    { <<"ai", ".", "default", "_", "provider">>,
      <<"ai">>,
      <<"ai", ".", "default", "_", "provider", ".", "key">>,
      <<"deep", ".", "nested", ".", "key">>,
      <<"ai", "_", "default", ".", "provider">> }

\* the values set is called with, and the caller's defaults of get
CfgValues ==
    {Str("google"), NoneVal}

CfgDefaults ==
    {NoneVal, Str("fallback")}

\* the values environment variables are set to
EnvValues ==
    {"anthropic", ""}

\* what load_config leaves in config_data (config.py lines 55-84): nothing when there
\* is no file, the dict of the file, here with a provider or with a YAML null for it
LoadedConfigs ==
    { EmptyDict,
      Dict(<<"ai">> :> Dict(N_default_provider :> Str("gemini"))),
      Dict(<<"ai">> :> Dict(N_default_provider :> NoneVal)) }

\* a call of get or set
CfgCall(name, key, value) ==
    [name |-> name, key |-> key, value |-> value]

NoCfgCall ==
    CfgCall("", <<>>, NoneVal)

\* ------------------------------------------------------------------ inputs
\* the segments utterances are built from
UttSegs ==
    << <<"zh_chuangjian">>,
       <<"zh_wenjian">>,
       <<"zh_jia">>,
       <<"zh_mulu">>,
       <<"zh_duqu">>,
       <<"zh_liechu">>,
       <<"zh_shanchu">>,
       <<"zh_fuzhi">>,
       <<"\"", "A", ".", "txt", "\"">>,
       <<"'", "b", ".", "txt", "'">>,
       <<"\"", "docs", "\"">>,
       <<"zh_neirong", "zh_shi", "\"", "Hi", "\"">>,
       <<" ">>,
       <<"zh_neirong", "\"", "f", "(", "'", "x", "'", ")", "\"">>,
       <<"zh_chuangjian", "zh_wenjian">> >>

\* the concatenation of the segments segs[ids[1]], segs[ids[2]], ...
RECURSIVE Concat(_, _)
Concat(segs, ids) ==
    IF ids = <<>> THEN <<>> ELSE segs[Head(ids)] \o Concat(segs, Tail(ids))

\* the lists of at most max segment numbers
SegLists(segs, max) ==
    UNION {[1..n -> 1..Len(segs)] : n \in 0..max}

\* the utterances execute is run on: one per rule of _parse_command, and two that fall
\* back to ai_process
ExecUtterances ==
    { <<"zh_chuangjian", "zh_wenjian", "\"", "A", ".", "txt", "\"",
        "zh_neirong", "zh_shi", "\"", "Hi", "\"">>,
      <<"zh_chuangjian", "zh_mulu", "\"", "docs", "\"">>,
      <<"zh_duqu", "\"", "A", ".", "txt", "\"">>,
      <<"zh_liechu">>,
      <<"zh_shanchu", "\"", "A", ".", "txt", "\"">>,
      <<"zh_fuzhi", "\"", "A", ".", "txt", "\"", "'", "b", ".", "txt", "'">>,
      <<" ", "Hi", " ", "a", " ">>,
      <<"zh_shanchu", " ", "A">> }

\* EXECUTE: name(args) and a newline
Line(name, args) ==
    <<"EXECUTE:", " ", name, "(">> \o args \o <<")", "\n">>

QA ==
    <<"\"", "a", ".", "txt", "\"">>

QB ==
    <<"\"", "b", ".", "txt", "\"">>

\* the segments AI responses are built from: the text, and what the AI meant by it
\* (name = "" for prose; args are the argument values)
RespSegs ==
    << [text |-> <<"Sure", ".", "\n">>, name |-> "", args |-> <<>>],
       [text |-> Line("create_file", QA \o <<",", " ", "\"", "hi", "\"">>),
        name |-> "create_file", args |-> << <<"a", ".", "txt">>, <<"hi">> >>],
       [text |-> Line("list_files", <<"\"", ".", "\"", ",", " ", "\"", "*", ".", "txt", "\"">>),
        name |-> "list_files", args |-> << <<".">>, <<"*", ".", "txt">> >>],
       [text |-> Line("format_disk", <<>>), name |-> "format_disk", args |-> <<>>],
       [text |-> Line("write_file", QA \o <<",", " ", "\"", "hi", "\"">>),
        name |-> "write_file", args |-> << <<"a", ".", "txt">>, <<"hi">> >>],
       [text |-> Line("move_file", QA),
        name |-> "move_file", args |-> << <<"a", ".", "txt">> >>],
       [text |-> Line("move_file", QA \o <<",", " ">> \o QB),
        name |-> "move_file", args |-> << <<"a", ".", "txt">>, <<"b", ".", "txt">> >>],
       [text |-> Line("read_file", <<"'", "a", ".", "txt", "'">>),
        name |-> "read_file", args |-> << <<"a", ".", "txt">> >>],
       [text |-> Line("delete_file", <<"a", ".", "txt">>),
        name |-> "delete_file", args |-> << <<"a", ".", "txt">> >>],
       [text |-> Line("copy_file", QA \o <<",">> \o QB),
        name |-> "copy_file", args |-> << <<"a", ".", "txt">>, <<"b", ".", "txt">> >>],
       [text |-> Line("create_directory", <<"\"", "docs", "\"">>),
        name |-> "create_directory", args |-> << <<"docs">> >>],
       [text |-> Line("create_file",
                      QA \o <<",", " ", "\"", "f", "(", "x", ")", " ", "y", "\"">>),
        name |-> "create_file",
        args |-> << <<"a", ".", "txt">>, <<"f", "(", "x", ")", " ", "y">> >>],
       [text |-> Line("read_file", <<>>), name |-> "read_file", args |-> <<>>],
       [text |-> <<"EXECUTE:", " ", "delete_file", "(">> \o QA \o <<")">>,
        name |-> "delete_file", args |-> << <<"a", ".", "txt">> >>],
       [text |-> Line("list_files", <<>>), name |-> "list_files", args |-> <<>>],
       [text |-> Line("create_file", QA \o <<",", "\"", "hi", "\"">>),
        name |-> "create_file", args |-> << <<"a", ".", "txt">>, <<"hi">> >>] >>

\* the text of the response built from the segments ids
ResponseText(ids) ==
    Concat([k \in 1..Len(RespSegs) |-> RespSegs[k].text], ids)

\* ------------------------------------------------------------------ execute
\* nothing returned yet
NoResult ==
    [pending |-> TRUE]

\* the handler of the whole cycle (agent.py lines 375-381), with the exception let
\* through instead
ExceptHandlerMissing(r) ==
    r

\* try: ... except Exception as e (agent.py lines 215, 375-381): r is what the body
\* returned or the exception it raised
ExceptHandler(r) ==
    IF IsException(r)
    THEN [success |-> FALSE,
          message |-> <<"Error executing command: ">> \o r.exception,
          operation |-> "unknown"]
    ELSE r

\* the path arguments of a classified command (the primitive is called with **params)
ParamPaths(cmd) ==
    IF cmd.operation = "copy_file" THEN <<cmd.params.src_path, cmd.params.dst_path>>
    ELSE <<cmd.params.path>>

\* the invocations of execute on the event loop
Tasks ==
    1..NumTasks

\* an invocation nobody has made yet
NoTask ==
    [pc |-> "none", user_input |-> <<>>, operation |-> "", result |-> NoResult]

Init ==
    /\ pc = "idle"
    /\ ai_provider \in BOOLEAN
    /\ user_input = <<>>
    /\ command = AiProcess(<<>>)
    /\ result = NoResult
    /\ trace = <<>>
    /\ directives = <<>>
    /\ response_text = <<>>
    /\ executed_operations = <<>>
    /\ fs = [p \in Paths |-> NoNode]
    /\ backups = <<>>
    /\ backup_mode = "on"
    /\ clock = 0
    /\ fm_call = NoFmCall
    /\ fm_result = NoResult
    /\ prev = [fs |-> fs, backups |-> backups, call |-> NoFmCall]
    /\ nops = 0
    /\ tasks = [t \in Tasks |-> NoTask]
    /\ running = 0
    /\ config_data = EmptyDict
    /\ environ = <<>>
    /\ cfg_call = NoCfgCall
    /\ cfg_result = NoResult
    /\ cfg_ops = 0

\* the variant of Execute that asks the AI for a confirmation message whatever the
\* primitive returned
ExecuteConfirmAlways(u, o) ==
    /\ pc = "idle"
    /\ user_input' = u
    /\ command' = parse_command(u)
    /\ UNCHANGED <<ai_provider, directives, response_text, executed_operations>>
    /\ LET operation == command'.operation
           r == PrimResult(operation, ParamPaths(command'), o)
       IN  IF operation \in file_operations
           THEN IF ~IsException(r) /\ ai_provider
                THEN /\ trace' = <<Ended(Call(operation, command'.params), o), AiCall>>
                     /\ result' = r
                     /\ pc' = "await_confirm"
                ELSE /\ trace' = <<Ended(Call(operation, command'.params), o)>>
                     /\ result' = ExceptHandler(r)
                     /\ pc' = "done"
           ELSE IF operation = "ai_process"
           THEN IF ~ai_provider
                THEN /\ trace' = <<>>
                     /\ result' = [success |-> FALSE,
                                   message |-> <<"AI provider not configured">>,
                                   operation |-> operation]
                     /\ pc' = "done"
                ELSE /\ trace' = <<AiCall>>
                     /\ result' = NoResult
                     /\ pc' = "await_ai"
           ELSE /\ trace' = <<>>
                /\ result' = [success |-> FALSE,
                              message |-> <<"Unknown operation: ", operation>>,
                              operation |-> operation]
                /\ pc' = "done"

\* the variant of Execute without the test for a configured provider on the
\* ai_process path
ExecuteNoProviderCheck(u, o) ==
    /\ pc = "idle"
    /\ user_input' = u
    /\ command' = parse_command(u)
    /\ UNCHANGED <<ai_provider, directives, response_text, executed_operations>>
    /\ LET operation == command'.operation
           r == PrimResult(operation, ParamPaths(command'), o)
       IN  IF operation \in file_operations
           THEN IF ~IsException(r) /\ r.success /\ ai_provider
                THEN /\ trace' = <<Ended(Call(operation, command'.params), o), AiCall>>
                     /\ result' = r
                     /\ pc' = "await_confirm"
                ELSE /\ trace' = <<Ended(Call(operation, command'.params), o)>>
                     /\ result' = ExceptHandler(r)
                     /\ pc' = "done"
           ELSE IF operation = "ai_process"
           THEN /\ trace' = <<AiCall>>
                /\ result' = NoResult
                /\ pc' = "await_ai"
           ELSE /\ trace' = <<>>
                /\ result' = [success |-> FALSE,
                              message |-> <<"Unknown operation: ", operation>>,
                              operation |-> operation]
                /\ pc' = "done"

\* execute(user_input) up to its first await or its return (agent.py lines 215-275)
Execute(u, o) ==
    /\ pc = "idle"
    /\ user_input' = u
    /\ command' = parse_command(u)
    /\ UNCHANGED <<ai_provider, directives, response_text, executed_operations>>
    /\ LET operation == command'.operation
           r == PrimResult(operation, ParamPaths(command'), o)
       IN  IF operation \in file_operations
           THEN IF ~IsException(r) /\ r.success /\ ai_provider
                THEN /\ trace' = <<Ended(Call(operation, command'.params), o), AiCall>>
                     /\ result' = r
                     /\ pc' = "await_confirm"
                ELSE /\ trace' = <<Ended(Call(operation, command'.params), o)>>
                     /\ result' = ExceptHandler(r)
                     /\ pc' = "done"
           ELSE IF operation = "ai_process"
           THEN IF ~ai_provider
                THEN /\ trace' = <<>>
                     /\ result' = [success |-> FALSE,
                                   message |-> <<"AI provider not configured">>,
                                   operation |-> operation]
                     /\ pc' = "done"
                ELSE /\ trace' = <<AiCall>>
                     /\ result' = NoResult
                     /\ pc' = "await_ai"
           ELSE /\ trace' = <<>>
                /\ result' = [success |-> FALSE,
                              message |-> <<"Unknown operation: ", operation>>,
                              operation |-> operation]
                /\ pc' = "done"

\* the confirmation call of the direct path returns or raises (agent.py lines 230-235)
ConfirmReply(o) ==
    /\ pc = "await_confirm"
    /\ pc' = "done"
    /\ result' = ExceptHandler(
                    CASE o = "ok" -> result @@ [ai_message |-> <<"confirmation">>]
                      [] o = "fail" -> result
                      [] o = "raise" -> Exception(<<"err">>))
    /\ trace' = Returned(trace, o)
    /\ UNCHANGED <<ai_provider, user_input, command, directives, response_text,
                   executed_operations>>

\* the variant of AiFailureResult that reads the message from a key the reply lacks
AiFailureResultWrongKey(ai_response, operation) ==
    [success |-> FALSE,
     message |-> Get(ai_response, "message", <<"Unknown error">>),
     operation |-> operation,
     ai_model |-> Get(ai_response, "model", "None"),
     usage |-> Get(ai_response, "usage", "None")]

\* what execute returns when the AI call failed (agent.py lines 277-284)
AiFailureResult(ai_response, operation) ==
    [success |-> FALSE,
     message |-> Get(ai_response, "error", <<"Unknown error">>),
     operation |-> operation,
     ai_model |-> Get(ai_response, "model", "None"),
     usage |-> Get(ai_response, "usage", "None")]

\* the variant of AiProcessResult whose success flag is that of the directives
AiProcessResultStrict(ai_response, operation, executed) ==
    [success |-> \A k \in 1..Len(executed) : executed[k][1] = "OK_MARK",
     message |-> FinalMessage(Get(ai_response, "response", <<>>), executed),
     operation |-> operation,
     ai_model |-> Get(ai_response, "model", "None"),
     usage |-> Get(ai_response, "usage", "None"),
     executed_operations |-> executed]

\* what execute returns when the AI call succeeded (agent.py lines 352-366)
AiProcessResult(ai_response, operation, executed) ==
    [success |-> TRUE,
     message |-> FinalMessage(Get(ai_response, "response", <<>>), executed),
     operation |-> operation,
     ai_model |-> Get(ai_response, "model", "None"),
     usage |-> Get(ai_response, "usage", "None"),
     executed_operations |-> executed]

\* the call of the ai_process path returns failure or raises (agent.py lines 271-284)
AiReplyFailure(o) ==
    /\ pc = "await_ai"
    /\ pc' = "done"
    /\ result' = ExceptHandler(
                    IF o = "raise" THEN Exception(<<"err">>)
                    ELSE AiFailureResult(AiFailure, command.operation))
    /\ trace' = Returned(trace, o)
    /\ UNCHANGED <<ai_provider, user_input, command, directives, response_text,
                   executed_operations>>

\* the call of the ai_process path returns success with the response built from the
\* segments ids; outs are the outcomes of the primitives the directives call (agent.py
\* lines 286-366)
AiReplySuccess(ids, outs) ==
    /\ pc = "await_ai"
    /\ pc' = "done"
    /\ LET ai_response == AiSuccess(ResponseText(ids))
           text == Get(ai_response, "response", <<>>)
           run == RunDirectives(FindDirectives(text, 1), outs)
       IN  /\ directives' = ids
           /\ response_text' = text
           /\ trace' = Returned(trace, "ok") \o run.calls
           /\ executed_operations' = run.executed
           /\ result' = ExceptHandler(
                           AiProcessResult(ai_response, command.operation, run.executed))
    /\ UNCHANGED <<ai_provider, user_input, command>>

\* the number of primitives the directives of a response call
NumCalls(ids) ==
    Len(RunDirectives(FindDirectives(ResponseText(ids), 1), <<>>).calls)

\* a call of execute on one of ExecUtterances
Start ==
    pc = "idle" /\ UNCHANGED <<fm_vars, loop_vars, cfg_vars>> /\ \E u \in ExecUtterances, o \in Outcome : Execute(u, o)

\* the reply to the confirmation call
Confirm ==
    pc = "await_confirm" /\ UNCHANGED <<fm_vars, loop_vars, cfg_vars>> /\ \E o \in Outcome : ConfirmReply(o)

\* the reply to the ai_process call: a failure or an exception
AiFails ==
    pc = "await_ai" /\ UNCHANGED <<fm_vars, loop_vars, cfg_vars>> /\ \E o \in {"fail", "raise"} : AiReplyFailure(o)

\* the reply to the ai_process call: a response of at most MaxDirectives segments
AiSucceeds ==
    /\ pc = "await_ai"
    /\ UNCHANGED <<fm_vars, loop_vars, cfg_vars>>
    /\ \E ids \in SegLists(RespSegs, MaxDirectives) :
          \E outs \in [1..NumCalls(ids) -> Outcome] : AiReplySuccess(ids, outs)

Next ==
    \/ Start
    \/ Confirm
    \/ AiFails
    \/ AiSucceeds

Spec ==
    Init /\ [][Next]_vars

\* _parse_command alone, on every utterance of at most MaxUttSegs segments
Classify(u) ==
    /\ pc = "idle"
    /\ pc' = "parsed"
    /\ user_input' = u
    /\ command' = parse_command(u)
    /\ UNCHANGED <<ai_provider, result, trace, directives, response_text,
                   executed_operations>>

NextClassify ==
    /\ pc = "idle"
    /\ UNCHANGED <<fm_vars, loop_vars, cfg_vars>>
    /\ \E ids \in SegLists(UttSegs, MaxUttSegs) : Classify(Concat(UttSegs, ids))

SpecClassify ==
    Init /\ [][NextClassify]_vars

\* the state of the agent, which the FileManager runs leave alone
agent_vars ==
    <<pc, ai_provider, user_input, command, result, trace, directives, response_text,
      executed_operations>>

\* a FileManager constructed on one of InitWorkspaces, with backups off, on, or on with
\* a backup directory that fails
InitFiles ==
    /\ pc = "idle"
    /\ ai_provider = FALSE
    /\ user_input = <<>>
    /\ command = AiProcess(<<>>)
    /\ result = NoResult
    /\ trace = <<>>
    /\ directives = <<>>
    /\ response_text = <<>>
    /\ executed_operations = <<>>
    /\ fs \in InitWorkspaces
    /\ backups = <<>>
    /\ backup_mode \in BackupModes
    /\ clock = 0
    /\ fm_call = NoFmCall
    /\ fm_result = NoResult
    /\ prev = [fs |-> fs, backups |-> backups, call |-> NoFmCall]
    /\ nops = 0
    /\ tasks = [t \in Tasks |-> NoTask]
    /\ running = 0
    /\ config_data = EmptyDict
    /\ environ = <<>>
    /\ cfg_call = NoCfgCall
    /\ cfg_result = NoResult
    /\ cfg_ops = 0

\* one call c of a primitive, from its entry to its return
Do(c) ==
    LET r == Apply(World(fs, backups, backup_mode, clock), c)
    IN  /\ nops' = nops + 1
        /\ fm_call' = c
        /\ fm_result' = r.result
        /\ prev' = [fs |-> fs, backups |-> backups, call |-> fm_call]
        /\ fs' = r.w.fs
        /\ backups' = r.w.backups
        /\ UNCHANGED <<backup_mode, clock, agent_vars, loop_vars, cfg_vars>>

CreateFile ==
    /\ nops < MaxOps
    /\ \E p \in Paths, c \in Contents : Do(FmCall("create_file", p, "", c, FALSE))

ReadFile ==
    /\ nops < MaxOps
    /\ \E p \in Paths : Do(FmCall("read_file", p, "", <<>>, FALSE))

WriteFile ==
    /\ nops < MaxOps
    /\ \E p \in Paths, c \in Contents, append \in BOOLEAN :
          Do(FmCall("write_file", p, "", c, append))

DeleteFile ==
    /\ nops < MaxOps
    /\ \E p \in Paths : Do(FmCall("delete_file", p, "", <<>>, FALSE))

MoveFile ==
    /\ nops < MaxOps
    /\ \E src \in FilePaths, dst \in Paths : Do(FmCall("move_file", src, dst, <<>>, FALSE))

CopyFile ==
    /\ nops < MaxOps
    /\ \E src \in FilePaths, dst \in Paths : Do(FmCall("copy_file", src, dst, <<>>, FALSE))

CreateDirectory ==
    /\ nops < MaxOps
    /\ Do(FmCall("create_directory", "sub", "", <<>>, FALSE))

\* a second passes between two calls
Tick ==
    /\ clock < MaxClock
    /\ clock' = clock + 1
    /\ UNCHANGED <<fs, backups, backup_mode, fm_call, fm_result, prev, nops, agent_vars,
                   loop_vars, cfg_vars>>

NextFiles ==
    \/ CreateFile
    \/ ReadFile
    \/ WriteFile
    \/ DeleteFile
    \/ MoveFile
    \/ CopyFile
    \/ CreateDirectory
    \/ Tick

SpecFiles ==
    InitFiles /\ [][NextFiles]_vars

\* whether the coroutine generate_response suspends, giving the thread back to the event
\* loop, while its request is in flight: its body has no await, the request is made
\* with the synchronous client (ai_providers.py lines 38, 48-53, 179, 192-197)
generate_response_suspends ==
    FALSE

\* a caller schedules execute(u) on the event loop (asyncio.create_task, gather)
Submit(t, u) ==
    /\ tasks[t].pc = "none"
    /\ tasks' = [tasks EXCEPT ![t] = [NoTask EXCEPT !.pc = "ready", !.user_input = u]]
    /\ UNCHANGED <<running, agent_vars, fm_vars, cfg_vars>>

\* the event loop, its thread free, runs a scheduled invocation: execute from its start
\* to its return, or to the request of its AI call (agent.py lines 215-275); o is the
\* outcome of the primitive of the direct path
Run(t, o) ==
    /\ running = 0
    /\ tasks[t].pc = "ready"
    /\ LET cmd == parse_command(tasks[t].user_input)
           operation == cmd.operation
           r == IF operation \in file_operations
                THEN PrimResult(operation, ParamPaths(cmd), o)
                ELSE NoResult
           calls_ai == \/ operation = "ai_process"
                       \/ operation \in file_operations /\ ~IsException(r) /\ r.success
       IN  /\ tasks' = [tasks EXCEPT ![t].operation = operation,
                                      ![t].pc = IF calls_ai THEN "in_ai" ELSE "done",
                                      ![t].result = IF calls_ai THEN r ELSE ExceptHandler(r)]
           /\ running' = IF calls_ai /\ ~generate_response_suspends THEN t ELSE 0
    /\ UNCHANGED <<agent_vars, fm_vars, cfg_vars>>

\* the reply to the AI call of an invocation arrives and the invocation runs to its
\* return (agent.py lines 230-235, 271-366 without directives); it needs the thread,
\* which it holds if generate_response did not suspend
Reply(t, o) ==
    /\ tasks[t].pc = "in_ai"
    /\ running \in {0, t}
    /\ LET operation == tasks[t].operation
           r == tasks[t].result
       IN  tasks' = [tasks EXCEPT
              ![t].pc = "done",
              ![t].result = ExceptHandler(
                 CASE o = "raise" -> Exception(<<"err">>)
                   [] o = "fail" /\ operation = "ai_process" ->
                        AiFailureResult(AiFailure, operation)
                   [] o = "fail" /\ operation # "ai_process" -> r
                   [] o = "ok" /\ operation = "ai_process" ->
                        AiProcessResult(AiSuccess(<<"Sure", ".">>), operation, <<>>)
                   [] o = "ok" /\ operation # "ai_process" ->
                        r @@ [ai_message |-> <<"confirmation">>])]
    /\ running' = 0
    /\ UNCHANGED <<agent_vars, fm_vars, cfg_vars>>

SubmitTask ==
    \E t \in Tasks, u \in ExecUtterances : Submit(t, u)

RunTask ==
    running = 0 /\ \E t \in Tasks, o \in Outcome : Run(t, o)

AiReplies ==
    \E t \in Tasks, o \in Outcome : Reply(t, o)

\* an agent with an AI provider, and an event loop with nothing scheduled
InitLoop ==
    /\ Init
    /\ ai_provider = TRUE

NextLoop ==
    \/ SubmitTask
    \/ RunTask
    \/ AiReplies

\* NumTasks invocations of execute on one single-threaded event loop
SpecLoop ==
    InitLoop /\ [][NextLoop]_vars

\* a Config constructed on one of LoadedConfigs, in an environment without variables
InitConfig ==
    /\ pc = "idle"
    /\ ai_provider = FALSE
    /\ user_input = <<>>
    /\ command = AiProcess(<<>>)
    /\ result = NoResult
    /\ trace = <<>>
    /\ directives = <<>>
    /\ response_text = <<>>
    /\ executed_operations = <<>>
    /\ fs = [p \in Paths |-> NoNode]
    /\ backups = <<>>
    /\ backup_mode = "on"
    /\ clock = 0
    /\ fm_call = NoFmCall
    /\ fm_result = NoResult
    /\ prev = [fs |-> fs, backups |-> backups, call |-> NoFmCall]
    /\ nops = 0
    /\ tasks = [t \in Tasks |-> NoTask]
    /\ running = 0
    /\ config_data \in LoadedConfigs
    /\ environ = <<>>
    /\ cfg_call = NoCfgCall
    /\ cfg_result = NoResult
    /\ cfg_ops = 0

\* config.get(key, default)
ConfigGet ==
    \E key \in CfgKeys, default \in CfgDefaults :
        /\ cfg_call' = CfgCall("get", key, default)
        /\ cfg_result' = config_get(config_data, environ, key, default)
        /\ UNCHANGED <<config_data, environ, cfg_ops, agent_vars, fm_vars, loop_vars>>

\* config.set(key, value)
ConfigSet ==
    /\ cfg_ops < MaxCfgOps
    /\ \E key \in CfgKeys, value \in CfgValues :
          LET r == config_set(config_data, key, value)
          IN  /\ cfg_call' = CfgCall("set", key, value)
              /\ cfg_result' = [raised |-> ~r.ok]
              /\ config_data' = r.value
              /\ cfg_ops' = cfg_ops + 1
              /\ UNCHANGED <<environ, agent_vars, fm_vars, loop_vars>>

\* os.environ[name] = value, for the variable a key names
SetEnv ==
    /\ cfg_ops < MaxCfgOps
    /\ \E key \in CfgKeys, value \in EnvValues :
          /\ environ' = Put(environ, EnvKey(key), value)
          /\ cfg_call' = CfgCall("setenv", key, Str(value))
          /\ cfg_result' = NoResult
          /\ cfg_ops' = cfg_ops + 1
          /\ UNCHANGED <<config_data, agent_vars, fm_vars, loop_vars>>

NextConfig ==
    \/ ConfigGet
    \/ ConfigSet
    \/ SetEnv

SpecConfig ==
    InitConfig /\ [][NextConfig]_vars

\* ------------------------------------------------------------------ claims
\* the positional arguments a primitive cannot be called without (file_manager.py:
\* the parameters of its signature that have no default, encoding aside)
RequiredArgs(name) ==
    CASE name \in {"create_file", "read_file", "delete_file", "create_directory"} -> 1
      [] name \in {"write_file", "move_file", "copy_file"} -> 2
      [] OTHER -> 0

IsPrimCall(c) ==
    c.call # "generate_response"

\* the primitive calls of the invocation, in order
PrimCalls ==
    SelectSeq(trace, IsPrimCall)

\* the names of a sequence of calls
Names(calls) ==
    [i \in 1..Len(calls) |-> calls[i].call]

\* the operation an entry of executed_operations names (marker, space, name, ...)
EntryName(e) ==
    e[3]

\* execute is done, took the ai_process path, and the AI call ended with outcome o
AiReplied(o) ==
    /\ pc = "done"
    /\ command.operation = "ai_process"
    /\ trace # <<>>
    /\ trace[1] = Ended(AiCall, o)

\* the segments the response was built from
Segs ==
    [i \in 1..Len(directives) |-> RespSegs[directives[i]]]

IsDirective(seg) ==
    seg.name # ""

IsRegisteredDirective(seg) ==
    seg.name \in file_operations

\* a directive that names a registered primitive and gives the arguments it requires
IsWellFormed(seg) ==
    seg.name \in file_operations /\ Len(seg.args) >= RequiredArgs(seg.name)

\* a directive that names a registered primitive and gives fewer arguments
IsShort(seg) ==
    seg.name \in file_operations /\ Len(seg.args) < RequiredArgs(seg.name)

SegNames(segs) ==
    [i \in 1..Len(segs) |-> segs[i].name]

\* a is b with some elements left out
RECURSIVE IsSubseq(_, _)
IsSubseq(a, b) ==
    IF a = <<>> THEN TRUE
    ELSE IF b = <<>> THEN FALSE
    ELSE IF Head(a) = Head(b) THEN IsSubseq(Tail(a), Tail(b))
    ELSE IsSubseq(a, Tail(b))

\* C1: whatever directives an AI response holds, the primitives called are registered
\* ones named by its registered directives, in their order (an unregistered directive
\* such as format_disk() contributes no call), and executed_operations has exactly one
\* entry per call made, so none for an unregistered directive.
C1_UnregisteredNeverExecuted ==
    AiReplied("ok") =>
        /\ \A i \in 1..Len(PrimCalls) : PrimCalls[i].call \in file_operations
        /\ IsSubseq(Names(PrimCalls), SegNames(SelectSeq(Segs, IsRegisteredDirective)))
        /\ Len(executed_operations) = Len(PrimCalls)
        /\ \A i \in 1..Len(PrimCalls) :
              EntryName(executed_operations[i]) = PrimCalls[i].call

\* C1 witness: a response with format_disk() and a registered directive that was called
C1_Witness ==
    /\ AiReplied("ok")
    /\ \E i \in 1..Len(Segs) : Segs[i].name = "format_disk"
    /\ PrimCalls # <<>>

\* C2: a call that raises gets a failure entry naming its operation, and the calls made
\* are those made when nothing raises: the later directives are still processed, in
\* order.
C2_RaiseRecordedLoopContinues ==
    AiReplied("ok") =>
        /\ Names(PrimCalls) = Names(RunDirectives(FindDirectives(response_text, 1), <<>>).calls)
        /\ Len(executed_operations) = Len(PrimCalls)
        /\ \A i \in 1..Len(PrimCalls) :
              PrimCalls[i].outcome = "raise" =>
                  /\ executed_operations[i][1] = "FAIL_MARK"
                  /\ EntryName(executed_operations[i]) = PrimCalls[i].call

\* C2 witness: the first of two calls raised
C2_Witness ==
    /\ AiReplied("ok")
    /\ Len(PrimCalls) >= 2
    /\ PrimCalls[1].outcome = "raise"

\* C3 (as claimed): when every directive of a successful response names a registered
\* primitive with the arguments its signature requires, each is called once, in order,
\* and executed_operations has one entry per directive.
C3_EachDirectiveCalledOnce ==
    (AiReplied("ok") /\ \A i \in 1..Len(Segs) : IsDirective(Segs[i]) => IsWellFormed(Segs[i])) =>
        /\ Names(PrimCalls) = SegNames(SelectSeq(Segs, IsDirective))
        /\ Len(executed_operations) = Len(SelectSeq(Segs, IsDirective))

\* C4 (as claimed): when a successful response holds directives, the returned message
\* holds no EXECUTE: marker and no operation call of a directive, and ends with the
\* summary lines, one per attempted sub-operation.
C4_DirectiveTextStripped ==
    (AiReplied("ok") /\ \E i \in 1..Len(Segs) : IsDirective(Segs[i])) =>
        /\ ~Contains(result.message, <<"EXECUTE:">>)
        /\ \A i \in 1..Len(Segs) :
              IsDirective(Segs[i]) => ~Contains(result.message, <<Segs[i].name, "(">>)
        /\ EndsWith(result.message, JoinLines(executed_operations))

\* C5: when the AI call of the ai_process path succeeded, execute returns success with
\* the message, the model id, the usage and the executed_operations list, whatever the
\* directives did.
C5_AiSuccessIsSuccess ==
    AiReplied("ok") =>
        /\ DOMAIN result = {"success", "message", "operation", "ai_model", "usage",
                            "executed_operations"}
        /\ result.success = TRUE
        /\ result.ai_model = AiSuccess(response_text).model
        /\ result.usage = AiSuccess(response_text).usage
        /\ result.executed_operations = executed_operations

\* C5 witness: one directive's call raised and another's returned failure
C5_Witness ==
    /\ AiReplied("ok")
    /\ \E i, j \in 1..Len(PrimCalls) :
          PrimCalls[i].outcome = "raise" /\ PrimCalls[j].outcome = "fail"

\* C6: whatever the collaborators do, execute returns a dict with a boolean success and
\* a message; no exception reaches the caller.
C6_NeverRaises ==
    pc = "done" =>
        /\ ~IsException(result)
        /\ {"success", "message"} \subseteq DOMAIN result
        /\ result.success \in BOOLEAN

\* C6 witness: a collaborator raised and the handler of the whole cycle answered
C6_Witness ==
    /\ pc = "done"
    /\ trace # <<>>
    /\ trace[Len(trace)].outcome = "raise"
    /\ result.operation = "unknown"

\* C7: when the AI call of the ai_process path returns failure, execute returns failure
\* with the backend's error text, the model id and the usage (None: the failure reply
\* has none), and no primitive is called.
C7_AiFailureReturned ==
    AiReplied("fail") =>
        /\ result.success = FALSE
        /\ result.message = AiFailure.error
        /\ result.ai_model = AiFailure.model
        /\ "usage" \in DOMAIN result
        /\ PrimCalls = <<>>
        /\ executed_operations = <<>>

\* C7 witness: the AI call of the ai_process path returned failure
C7_Witness ==
    AiReplied("fail")

\* C8 (as claimed): on the direct path the success flag and the message execute returns
\* are those the primitive returned, whatever the confirmation call does; a failed
\* confirmation only leaves ai_message out.
C8_ConfirmationIsBestEffort ==
    (pc = "done" /\ command.operation \in file_operations /\ trace[1].outcome # "raise") =>
        /\ result.success = (trace[1].outcome = "ok")
        /\ result.message = PrimMessage(command.operation, ParamPaths(command),
                                        trace[1].outcome = "ok")
        /\ (Len(trace) = 2 /\ trace[2].outcome # "ok") => "ai_message" \notin DOMAIN result

\* C9 (as claimed): a directive that names a registered primitive with fewer arguments
\* than it requires gets an entry of executed_operations without a call, so there are
\* at least as many entries as calls and such directives together; the call as a whole
\* succeeds.
C9_ShortDirectiveReported ==
    AiReplied("ok") =>
        /\ result.success
        /\ Len(executed_operations) >= Len(PrimCalls) + Len(SelectSeq(Segs, IsShort))

\* the rule of _parse_command whose keywords an utterance satisfies first, in the order
\* of the code; "none" if it satisfies none
FiredRule(u) ==
    LET has(k) == Contains(Strip(Lower(u)), k)
    IN  IF has(<<"zh_chuangjian">>) /\ has(<<"zh_wenjian">>) THEN "create_file"
        ELSE IF has(<<"zh_chuangjian">>) /\ (has(<<"zh_mulu">>) \/ has(<<"zh_wenjian", "zh_jia">>))
        THEN "create_directory"
        ELSE IF has(<<"zh_duqu">>) \/ has(<<"zh_chakan">>) THEN "read_file"
        ELSE IF has(<<"zh_liechu">>) \/ has(<<"zh_xianshi">>) THEN "list_files"
        ELSE IF has(<<"zh_shanchu">>) THEN "delete_file"
        ELSE IF has(<<"zh_fuzhi">>) \/ has(<<"zh_kaobei">>) THEN "copy_file"
        ELSE "none"

\* the tokens the fired rule requires cannot be extracted from the utterance
TokensMissing(u) ==
    CASE FiredRule(u) \in {"create_file", "read_file", "delete_file"} ->
           ~SearchFile(Strip(u)).found
      [] FiredRule(u) = "create_directory" -> ~SearchQuoted(Strip(u)).found
      [] FiredRule(u) = "copy_file" -> Len(FindAllFile(Strip(u), 1)) < 2
      [] OTHER -> FALSE

\* C10: when the rule an utterance fires requires tokens that cannot be extracted,
\* _parse_command returns ai_process with the stripped utterance in its original casing
\* as prompt; and no command it returns has an empty path.
C10_MissingTokenFallsBack ==
    pc = "parsed" =>
        /\ TokensMissing(user_input) =>
              command = [operation |-> "ai_process",
                         params |-> [prompt |-> Strip(user_input)]]
        /\ command.operation \in {"create_file", "create_directory", "read_file",
                                  "delete_file"} => command.params.path # <<>>
        /\ command.operation = "copy_file" =>
              command.params.src_path # <<>> /\ command.params.dst_path # <<>>

\* C10 witness: a rule fired without its token on an utterance with an upper-case
\* letter and surrounding white space
C10_Witness ==
    /\ pc = "parsed"
    /\ TokensMissing(user_input)
    /\ Lower(user_input) # user_input
    /\ Strip(user_input) # user_input

\* the positions in RuleOrder of the rules whose keywords the utterance satisfies
SatisfiedRules(u) ==
    {i \in 1..Len(RuleOrder) : RuleSatisfied(RuleOrder[i], Strip(Lower(u)))}

\* C11: when the keywords of an utterance satisfy more than one rule, the command is
\* the one the first satisfied rule (in the order create-file, create-directory,
\* read/view, list/show, delete, copy/duplicate) gives on its own: that rule's command,
\* or ai_process with the original utterance if its tokens cannot be extracted. No
\* later rule is applied.
C11_FirstSatisfiedRuleDecides ==
    (pc = "parsed" /\ Cardinality(SatisfiedRules(user_input)) >= 2) =>
        LET first == RuleOrder[SetMin(SatisfiedRules(user_input))]
        IN  /\ command = RuleCommand(first, Strip(user_input), Strip(Lower(user_input)))
            /\ command.operation \in {first, "ai_process"}

\* C11 witness: two rules are satisfied, the first cannot extract its tokens, and the
\* later one could have given a command of its own
C11_Witness ==
    /\ pc = "parsed"
    /\ command.operation = "ai_process"
    /\ \E i, j \in SatisfiedRules(user_input) :
          /\ i < j
          /\ RuleCommand(RuleOrder[j], Strip(user_input),
                         Strip(Lower(user_input))).operation = RuleOrder[j]

\* position of the first character equal to q after position i, 0 if none
RECURSIVE NextSame(_, _, _)
NextSame(s, i, q) ==
    IF i + 1 > Len(s) THEN 0
    ELSE IF s[i + 1] = q THEN i + 1
    ELSE NextSame(s, i + 1, q)

\* the quoted string that starts at position i of s: from a quote to the next quote of
\* the same kind, so that "f('x')" is one string whose content is f('x')
QuotedStringAt(s, i) ==
    LET j == IF i <= Len(s) /\ IsQuote(s[i]) THEN NextSame(s, i, s[i]) ELSE 0
    IN  IF j > i + 1
        THEN [found |-> TRUE, group |-> SubSeq(s, i + 1, j - 1), end |-> j]
        ELSE NoMatch

\* the content clauses of an utterance: the positions of a content keyword that, after
\* an optional zh_shi or zh_wei, a quoted string follows
ContentClauses(u) ==
    {i \in 1..Len(u) : u[i] = "zh_neirong" /\ QuotedStringAt(u, AfterShiWei(u, i)).found}

\* the quoted name.ext tokens of an utterance
FileTokens(u) ==
    {FindAllFile(u, 1)[k] : k \in 1..Len(FindAllFile(u, 1))}

\* C12 (as claimed): an utterance with the create and the file keyword, a quoted
\* name.ext token and a content clause followed by a quoted string is classified as
\* create_file, with that token as path and the whole quoted string as content.
C12_CreateFileWithContent ==
    (/\ pc = "parsed"
     /\ RuleSatisfied("create_file", Strip(Lower(user_input)))
     /\ Cardinality(FileTokens(Strip(user_input))) = 1
     /\ Cardinality(ContentClauses(Strip(user_input))) = 1) =>
        LET u == Strip(user_input)
            i == SetMin(ContentClauses(u))
        IN  /\ command.operation = "create_file"
            /\ command.params.path \in FileTokens(u)
            /\ command.params.content = QuotedStringAt(u, AfterShiWei(u, i)).group

\* the rule that decides an utterance: the first whose keyword condition holds
DecidingRule(u) ==
    IF SatisfiedRules(u) = {} THEN "none" ELSE RuleOrder[SetMin(SatisfiedRules(u))]

\* the quoted name.ext tokens of an utterance, in order
NameExtTokens(u) ==
    FindAllFile(Strip(u), 1)

\* C13 (as claimed): every utterance with the delete keyword and exactly one quoted
\* name.ext token is classified as delete_file of that token, and every utterance with
\* the delete keyword and no such token as ai_process.
C13_DeleteClassified ==
    (pc = "parsed" /\ RuleSatisfied("delete_file", Strip(Lower(user_input)))) =>
        /\ Len(NameExtTokens(user_input)) = 1 =>
              command = [operation |-> "delete_file",
                         params |-> [path |-> NameExtTokens(user_input)[1]]]
        /\ Len(NameExtTokens(user_input)) = 0 => command.operation = "ai_process"

\* C13 (amended): the same, for the utterances that satisfy the keyword condition of
\* no rule before the delete rule (create-file, create-directory, read/view,
\* list/show); the fallback carries the original utterance.
C13_DeleteClassifiedWhenFirst ==
    (pc = "parsed" /\ DecidingRule(user_input) = "delete_file") =>
        /\ Len(NameExtTokens(user_input)) = 1 =>
              command = [operation |-> "delete_file",
                         params |-> [path |-> NameExtTokens(user_input)[1]]]
        /\ Len(NameExtTokens(user_input)) = 0 =>
              command = AiProcess(Strip(user_input))

\* C13 witness: the delete rule decides an utterance that has one name.ext token and a
\* quoted token that is not one
C13_Witness ==
    /\ pc = "parsed"
    /\ DecidingRule(user_input) = "delete_file"
    /\ Len(NameExtTokens(user_input)) = 1
    /\ Contains(user_input, <<"\"", "docs", "\"">>)
    /\ command.operation = "delete_file"

\* C14 (as claimed): every utterance with a copy keyword and two quoted name.ext
\* tokens A then B is classified as copy_file from A to B, and every utterance with a
\* copy keyword and only one such token as ai_process.
C14_CopyClassified ==
    (pc = "parsed" /\ RuleSatisfied("copy_file", Strip(Lower(user_input)))) =>
        /\ Len(NameExtTokens(user_input)) = 2 =>
              command = [operation |-> "copy_file",
                         params |-> [src_path |-> NameExtTokens(user_input)[1],
                                     dst_path |-> NameExtTokens(user_input)[2]]]
        /\ Len(NameExtTokens(user_input)) = 1 => command.operation = "ai_process"

\* C14 (amended): the same, for the utterances that satisfy the keyword condition of
\* no rule before the copy rule (create-file, create-directory, read/view, list/show,
\* delete); the fallback carries the original utterance.
C14_CopyClassifiedWhenFirst ==
    (pc = "parsed" /\ DecidingRule(user_input) = "copy_file") =>
        /\ Len(NameExtTokens(user_input)) = 2 =>
              command = [operation |-> "copy_file",
                         params |-> [src_path |-> NameExtTokens(user_input)[1],
                                     dst_path |-> NameExtTokens(user_input)[2]]]
        /\ Len(NameExtTokens(user_input)) = 1 =>
              command = AiProcess(Strip(user_input))

\* C14 witness: the copy rule decides an utterance with two different name.ext tokens
C14_Witness ==
    /\ pc = "parsed"
    /\ DecidingRule(user_input) = "copy_file"
    /\ Len(NameExtTokens(user_input)) = 2
    /\ NameExtTokens(user_input)[1] # NameExtTokens(user_input)[2]
    /\ command.operation = "copy_file"

\* the file keyword occurs in u only as the first half of the folder keyword
FileOnlyInFolder(u) ==
    \A i \in 1..Len(u) :
        u[i] = "zh_wenjian" => (i < Len(u) /\ u[i + 1] = "zh_jia")

\* C15 (as claimed, on the utterances that name a file nowhere but inside the folder
\* keyword): an utterance with the create keyword, the directory or the folder keyword
\* and at least one quoted token is classified as create_directory of the first quoted
\* token.
C15_CreateDirectoryClassified ==
    (/\ pc = "parsed"
     /\ Contains(user_input, <<"zh_chuangjian">>)
     /\ Contains(user_input, <<"zh_mulu">>) \/ Contains(user_input, <<"zh_wenjian", "zh_jia">>)
     /\ FileOnlyInFolder(user_input)
     /\ SearchQuoted(Strip(user_input)).found) =>
        command = [operation |-> "create_directory",
                   params |-> [path |-> SearchQuoted(Strip(user_input)).group]]

\* the branch of execute a command takes (agent.py lines 224, 238, 368): the direct
\* path, the ai_process path, or the defensive "Unknown operation" branch
ExecuteBranch(cmd) ==
    IF cmd.operation \in file_operations THEN "direct"
    ELSE IF cmd.operation = "ai_process" THEN "ai_process"
    ELSE "unknown"

\* C16: whatever the utterance, the operation of the command _parse_command returns is
\* a registered primitive or ai_process, so execute never takes its "Unknown
\* operation" branch.
C16_OperationKnown ==
    pc = "parsed" =>
        /\ command.operation \in file_operations \cup {"ai_process"}
        /\ ExecuteBranch(command) # "unknown"

\* C16 witness: an utterance classified by a rule, and so dispatched on the direct path
C16_Witness ==
    /\ pc = "parsed"
    /\ ExecuteBranch(command) = "direct"
    /\ command.operation = DecidingRule(user_input)
    /\ command.operation = "list_files"

\* a primitive has been called and has returned
Called(name) ==
    nops >= 1 /\ fm_call.name = name

\* the last call was of a primitive that can overwrite or remove a file: every mutating
\* one but create_directory and write_file in append mode
Destructive ==
    /\ nops >= 1
    /\ fm_call.name \in {"create_file", "write_file", "delete_file", "move_file", "copy_file"}
    /\ ~(fm_call.name = "write_file" /\ fm_call.append)

\* the paths whose file the last call overwrote or removed: a file was there before the
\* call that is not there, as it was, after it (the source of a move aside, which the
\* call takes to its destination)
Lost ==
    {p \in Paths : /\ prev.fs[p].kind = "file"
                   /\ fs[p] # prev.fs[p]
                   /\ ~(fm_call.name = "move_file" /\ p = fm_call.path)}

\* the backup directory holds a backup of the file that was at p before the last call
BackedUp(p) ==
    \E k \in DOMAIN backups : k[1] = BaseName(p) /\ backups[k] = prev.fs[p].content

\* C17 (as claimed, with a backup directory in working order): whenever create_file,
\* write_file without append, delete_file, move_file or copy_file has overwritten or
\* removed an existing file, the backup directory holds a backup with the content the
\* file had before the call.
C17_BackupBeforeOverwrite ==
    (Destructive /\ backup_mode = "on") => \A p \in Lost : BackedUp(p)

\* the path whose file the last call backs up before it acts: its destination
BackupTarget ==
    IF fm_call.name \in {"move_file", "copy_file"} THEN fm_call.dst ELSE fm_call.path

\* the last call tried to copy its target into the backup directory and the copy
\* failed: the backup directory refused it, or the target is a directory
BackupCopyFailed ==
    /\ Destructive
    /\ Apply(World(prev.fs, prev.backups, "off", clock), fm_call).result.message
          # "Source file not found"
    /\ Kind(mkdir(prev.fs, Parent(BackupTarget)).fs, BackupTarget) # "none"
    /\ mkdir(prev.fs, Parent(BackupTarget)).ok
    /\ \/ backup_mode = "failing"
       \/ backup_mode = "on" /\ prev.fs[BackupTarget].kind = "dir"

\* C18: when the copy into the backup directory fails during create_file, write_file,
\* delete_file, move_file or copy_file, the call returns what it returns with backups
\* off and leaves the workspace as it does with backups off; the backup directory is
\* as it was.
C18_BackupFailureIgnored ==
    BackupCopyFailed =>
        LET ref == Apply(World(prev.fs, prev.backups, "off", clock), fm_call)
        IN  /\ fm_result = ref.result
            /\ fs = ref.w.fs
            /\ backups = prev.backups

\* C18 witness: the backup directory refused the copy, and the call went on to
\* overwrite or remove the file and returned success
C18_Witness ==
    /\ BackupCopyFailed
    /\ backup_mode = "failing"
    /\ fm_result.success
    /\ BackupTarget \in Lost

\* the last call wrote a whole file: create_file, or write_file without append
WroteWhole ==
    /\ nops >= 1
    /\ fm_call.name \in {"create_file", "write_file"}
    /\ ~fm_call.append

\* what read_file of path returns when called now
ReadNow(path) ==
    read_file(World(fs, backups, backup_mode, clock), path).result

\* C19 (as claimed, for the calls that return success): after create_file(path,
\* content), or write_file(path, content) without append, read_file(path) returns
\* success with the content that was written, whether or not a file was at path
\* before.
C19_CreateReadRoundTrip ==
    (WroteWhole /\ fm_result.success) =>
        /\ ReadNow(fm_call.path).success
        /\ ReadNow(fm_call.path).content = fm_call.content

\* the last call was write_file in append mode on a path that held a file
AppendedToFile ==
    /\ nops >= 1
    /\ fm_call.name = "write_file"
    /\ fm_call.append
    /\ prev.fs[fm_call.path].kind = "file"

\* C20: write_file(path, S, append=true) on an existing file with content P returns
\* success and leaves the file with P followed by S; read_file reports a content that
\* starts with what it reported before; the backup directory is as it was.
C20_AppendKeepsPrefix ==
    AppendedToFile =>
        LET P == prev.fs[fm_call.path].content
        IN  /\ fm_result.success
            /\ fs[fm_call.path] = FileNode(P \o fm_call.content)
            /\ StartsWith(ReadNow(fm_call.path).content, ReadText(P))
            /\ backups = prev.backups

\* C20 witness: an append to a file, with backups on and a backup already taken
C20_Witness ==
    /\ AppendedToFile
    /\ backup_mode = "on"
    /\ backups # <<>>
    /\ Len(fs[fm_call.path].content) > Len(prev.fs[fm_call.path].content)

\* the last call was delete_file on a path that held a file
DeletedExistingFile ==
    /\ Called("delete_file")
    /\ prev.fs[fm_call.path].kind = "file"

\* C21 (as claimed): with backups enabled, delete_file on an existing file returns
\* success with a non-empty backup path in the result, and afterwards nothing is at the
\* path.
C21_DeleteReturnsBackup ==
    (DeletedExistingFile /\ backup_mode # "off") =>
        /\ fm_result.success
        /\ "backup" \in DOMAIN fm_result
        /\ Get(fm_result, "backup", <<>>) # <<>>
        /\ fs[fm_call.path] = NoNode

\* the last call was delete_file or read_file on a path where nothing was
CalledOnMissing ==
    /\ nops >= 1
    /\ fm_call.name \in {"delete_file", "read_file"}
    /\ prev.fs[fm_call.path].kind = "none"

\* C22: delete_file and read_file on a path where nothing exists return success=false
\* with the "File not found" message and no backup field, and leave the workspace and
\* the backup directory as they were; so does a second delete_file of a file that the
\* call before it deleted.
C22_MissingNotFound ==
    CalledOnMissing =>
        /\ fm_result.success = FALSE
        /\ fm_result.message = "File not found"
        /\ "backup" \notin DOMAIN fm_result
        /\ fs = prev.fs
        /\ backups = prev.backups

\* C22 witness: delete_file of a file that the call before it deleted, with a backup
C22_Witness ==
    /\ CalledOnMissing
    /\ fm_call.name = "delete_file"
    /\ prev.call = fm_call
    /\ prev.backups # <<>>
    /\ ~fm_result.success

\* the last call was move_file of an existing source file and returned success
MovedFile ==
    /\ Called("move_file")
    /\ prev.fs[fm_call.path].kind = "file"
    /\ fm_result.success

\* C23 (as claimed): after move_file(src, dst) of an existing source file has returned
\* success, nothing is at src and dst is a file with the content src had before the
\* call, whatever dst is.
C23_MoveTransfersContent ==
    MovedFile =>
        /\ fs[fm_call.path] = NoNode
        /\ fs[fm_call.dst] = prev.fs[fm_call.path]

\* the invocation t has made the request of its AI call and the reply has not arrived
WaitingForAi(t) ==
    tasks[t].pc = "in_ai"

\* the event loop can run the scheduled invocation t now
CanRun(t) ==
    ENABLED (\E o \in Outcome : Run(t, o))

\* C24 (as claimed): while one invocation is waiting for the reply to its AI call,
\* another invocation scheduled on the same event loop can be run (classify, call its
\* primitive, make its own AI call): it is not blocked until the reply arrives.
C24_InterleaveAtAiCall ==
    \A t, other \in Tasks :
        (t # other /\ WaitingForAi(t) /\ tasks[other].pc = "ready") => CanRun(other)

\* the value the names of a dotted key lead to in a nested dict, if they lead to one
RECURSIVE Find(_, _)
Find(value, keys) ==
    IF keys = <<>> THEN [present |-> TRUE, value |-> value]
    ELSE IF HasKey(value, Head(keys)) THEN Find(value.items[Head(keys)], Tail(keys))
    ELSE [present |-> FALSE, value |-> NoneVal]

\* the names of a dotted key
KeyNames(key) ==
    Split(key, <<".">>)

\* the environment variable a key names is set
EnvSet(key) ==
    EnvKey(key) \in DOMAIN environ

\* what the precedence of the claim gives for key: the environment variable, then the
\* configuration where configured(key) says it has a value, then the built-in default,
\* then the caller's default
Resolved(key, default, configured(_)) ==
    IF EnvSet(key) THEN Str(environ[EnvKey(key)])
    ELSE IF configured(key) THEN Find(config_data, KeyNames(key)).value
    ELSE IF Find(defaults, KeyNames(key)).present THEN Find(defaults, KeyNames(key)).value
    ELSE default

\* the configuration has an entry for key, whatever its value
Present(key) ==
    Find(config_data, KeyNames(key)).present

\* the configuration has an entry for key whose value is not None
PresentNotNone(key) ==
    Present(key) /\ Find(config_data, KeyNames(key)).value # NoneVal

\* what get(key) returns when called now
GetNow(key) ==
    config_get(config_data, environ, key, NoneVal)

\* the last call was set(key, v), it returned, and the variable key names is not set
SetReturned ==
    /\ cfg_call.name = "set"
    /\ ~cfg_result.raised
    /\ ~EnvSet(cfg_call.key)

\* C25 (as claimed): get(key, default) returns the environment variable named by the
\* upper-cased key with dots replaced by underscores if it is set; otherwise the value
\* the configuration has for the key if it has one; otherwise the built-in default;
\* otherwise the caller's default. After set(key, v) without such a variable, get(key)
\* returns v.
C25_ConfigPrecedence ==
    /\ cfg_call.name = "get" => cfg_result = Resolved(cfg_call.key, cfg_call.value, Present)
    /\ SetReturned => GetNow(cfg_call.key) = cfg_call.value

\* C25 (amended): the same, where the configuration counts as having a value for the
\* key only if that value is not None (a YAML null, or set(key, None)), and v is not
\* None.
C25_ConfigPrecedenceNotNone ==
    /\ cfg_call.name = "get" =>
          cfg_result = Resolved(cfg_call.key, cfg_call.value, PresentNotNone)
    /\ (SetReturned /\ cfg_call.value # NoneVal) => GetNow(cfg_call.key) = cfg_call.value

\* C25 witness: get of a key that has an environment variable, a value that was set
\* and a built-in default, all different
C25_Witness ==
    /\ cfg_call.name = "get"
    /\ EnvSet(cfg_call.key)
    /\ PresentNotNone(cfg_call.key)
    /\ Find(defaults, KeyNames(cfg_call.key)).present
    /\ Find(config_data, KeyNames(cfg_call.key)).value = Str("google")
    /\ cfg_result = Str("anthropic")

\* a directive create_file("p", "c") with two double-quoted arguments
IsCreateFileTwo(seg) ==
    seg.name = "create_file" /\ Len(seg.args) = 2

\* C26 (as claimed): when the directives of a successful response are create_file("p",
\* "c") with two double-quoted strings without quote characters, each leads to one call
\* of create_file with path exactly p and content exactly c, also when c holds
\* parentheses, commas or white space and when no space follows the separating comma.
C26_CreateFileArgsExact ==
    (AiReplied("ok") /\ \A i \in 1..Len(Segs) : IsDirective(Segs[i]) => IsCreateFileTwo(Segs[i])) =>
        LET ds == SelectSeq(Segs, IsDirective)
        IN  /\ Len(PrimCalls) = Len(ds)
            /\ \A i \in 1..Len(ds) :
                  /\ PrimCalls[i].call = "create_file"
                  /\ PrimCalls[i].args = ds[i].args

\* C27 (as claimed): an entry of executed_operations carries the success marker only
\* if the primitive called for it returned success=true; when the primitive returned
\* success=false the entry carries the failure marker.
C27_MarkerFollowsSuccess ==
    AiReplied("ok") =>
        \A i \in 1..Len(executed_operations) :
            /\ executed_operations[i][1] = "OK_MARK" => PrimCalls[i].outcome = "ok"
            /\ PrimCalls[i].outcome = "fail" => executed_operations[i][1] = "FAIL_MARK"

\* C28 (as claimed): a backup, once in the backup directory, is never overwritten or
\* changed by a later call: whatever the calls and however close in time, every
\* artifact of the backup directory is still there after the next step, with the content
\* it captured.
C28_BackupNeverOverwritten ==
    [][\A k \in DOMAIN backups : k \in DOMAIN backups' /\ backups'[k] = backups[k]]_vars

IsAiCall(c) ==
    c.call = "generate_response"

\* the positions of trace where the AI backend is called
AiCallPositions ==
    {i \in 1..Len(trace) : IsAiCall(trace[i])}

\* C29: an invocation of execute calls the AI backend at most once. On the direct path
\* the call comes after the primitive and only if the primitive returned success; on
\* the ai_process path the call comes first and primitives are called only once its
\* reply has been received.
C29_AiCallOrder ==
    /\ Cardinality(AiCallPositions) <= 1
    /\ (pc # "idle" /\ command.operation \in file_operations) =>
          /\ Len(trace) \in 1..2
          /\ ~IsAiCall(trace[1])
          /\ Len(trace) = 2 => (IsAiCall(trace[2]) /\ trace[1].outcome = "ok")
    /\ (pc # "idle" /\ command.operation = "ai_process" /\ PrimCalls # <<>>) =>
          /\ IsAiCall(trace[1])
          /\ trace[1].outcome = "ok"

\* C29 witness: with an AI provider, the primitive of the direct path returned failure
\* and execute returned without calling the backend
C29_Witness ==
    /\ pc = "done"
    /\ ai_provider
    /\ command.operation \in file_operations
    /\ trace[1].outcome = "fail"
    /\ AiCallPositions = {}

\* C30: without an AI provider, execute on an ai_process utterance returns the failure
\* "AI provider not configured" and calls no primitive, and execute on a direct
\* operation calls its primitive and returns what the primitive returned, without an
\* ai_message field.
C30_NoProvider ==
    (pc # "idle" /\ ~ai_provider) =>
        /\ pc = "done"
        /\ command.operation = "ai_process" =>
              /\ result = [success |-> FALSE,
                           message |-> <<"AI provider not configured">>,
                           operation |-> "ai_process"]
              /\ trace = <<>>
        /\ command.operation \in file_operations =>
              /\ Len(trace) = 1
              /\ trace[1].call = command.operation
              /\ trace[1].args = command.params
              /\ "ai_message" \notin DOMAIN result
              /\ trace[1].outcome # "raise" =>
                    result = PrimResult(command.operation, ParamPaths(command),
                                        trace[1].outcome)

\* C30 witness: execute returned on an ai_process utterance with no provider configured
C30_Witness ==
    /\ pc = "done"
    /\ ~ai_provider
    /\ command.operation = "ai_process"
    /\ ~result.success

====
